---- MODULE Spec2Model ----
(***************************************************************************)
(* Potionality quiz engine: the score accumulator, the condition          *)
(* evaluator, the result resolver (lib/quiz.ts) and the URL state codec    *)
(* with the session state machine of the React App component (App.tsx).    *)
(*                                                                         *)
(* JavaScript values are represented as follows.                           *)
(*   - an optional value (a property that may be undefined, a function     *)
(*     that may return null) is a sequence of length 0 or 1;               *)
(*   - an object used as an ordered map (ScoreMap, Object.entries order)   *)
(*     is a sequence of [id, value] records with distinct ids;             *)
(*   - an array index is 1-based here and 0-based in the source.           *)
(***************************************************************************)
EXTENDS Integers, Sequences, FiniteSets, TLC

VARIABLES
    \* ---- harness of the pure functions of lib/quiz.ts
    results,      \* ResultProfile[] handed to computeResult
    scoreMap,     \* ScoreMap handed to computeResult
    outcome,      \* <<>> before the call, <<returned record>> after it
    call,         \* the codec call under test: [fn, ...arguments] or <<>>
    returned,     \* <<>> before the call, <<what it gave back>> after it
    \* ---- App component state (useState / useRef) and window.location
    files,        \* the JSON configuration the fetch will deliver
    data,         \* QuizData | null
    index, scores, answers, finished, lastResult,
    answeringLocked,
    transitionTimeout,   \* transitionTimeoutRef: a pending 350 ms timer or none
    url,          \* the three query parameters state / result / scores
    \* ---- the legacy vanilla page run next to the React page
    legacy,       \* the `state` object of legacy/assets/js/app.js with the rendered question
    timers        \* the 350 ms timeouts not yet due, oldest first, each of one page or both

vars == << results, scoreMap, outcome, call, returned, files, data, index, scores, answers,
           finished, lastResult, answeringLocked, transitionTimeout, url, legacy, timers >>

resolverVars == << results, scoreMap, outcome >>
codecVars == << call, returned >>
reactVars == << files, data, index, scores, answers, finished, lastResult,
                answeringLocked, transitionTimeout, url >>
legacyVars == << legacy, timers >>
sessionVars == << reactVars, legacyVars >>

(***************************************************************************)
(* Optional values                                                         *)
(***************************************************************************)
None == << >>
Some(x) == << x >>
OrElse(opt, d) == IF opt = None THEN d ELSE opt[1]

Range(s) == { s[i] : i \in DOMAIN s }

Abs(x) == IF x < 0 THEN -x ELSE x
Max2(a, b) == IF a >= b THEN a ELSE b
Min2(a, b) == IF a <= b THEN a ELSE b

(***************************************************************************)
(* Score maps                                                              *)
(***************************************************************************)
\* scoreMap[id]: the value stored under id, or undefined
Get(map, id) ==
    IF \E i \in DOMAIN map : map[i].id = id
    THEN Some(map[CHOOSE i \in DOMAIN map : map[i].id = id].value)
    ELSE None

\* map[id] = value: overwrite in place, or append a new key (insertion order)
Put(map, id, value) ==
    IF \E i \in DOMAIN map : map[i].id = id
    THEN [ i \in DOMAIN map |-> IF map[i].id = id
                                THEN [id |-> id, value |-> value] ELSE map[i] ]
    ELSE Append(map, [id |-> id, value |-> value])

Keys(map) == { map[i].id : i \in DOMAIN map }

RECURSIVE SumValues(_)
SumValues(map) ==
    IF map = << >> THEN 0 ELSE Head(map).value + SumValues(Tail(map))

RECURSIVE SumAbsValues(_)
SumAbsValues(map) ==
    IF map = << >> THEN 0 ELSE Abs(Head(map).value) + SumAbsValues(Tail(map))

clampDefaults(value, min, max) == Max2(-24, Min2(24, value))
clamp(value, min, max) == Max2(min, Min2(max, value))

createInitialScores(dimensions) ==
    [ i \in DOMAIN dimensions |-> [id |-> dimensions[i], value |-> 0] ]

(***************************************************************************)
(* Array.prototype.sort is stable: an entry moves in front of the entries  *)
(* that follow it only when the comparator says it is strictly greater.    *)
(* byAbs selects the comparator Math.abs(b) - Math.abs(a) of computeResult *)
(* and buildLiveProfileText; otherwise it is b.value - a.value.            *)
(***************************************************************************)
SortKey(e, byAbs) == IF byAbs THEN Abs(e.value) ELSE e.value

RECURSIVE InsertSorted(_, _, _)
InsertSorted(e, sorted, byAbs) ==
    IF sorted = << >> THEN << e >>
    ELSE IF SortKey(Head(sorted), byAbs) > SortKey(e, byAbs)
         THEN << Head(sorted) >> \o InsertSorted(e, Tail(sorted), byAbs)
         ELSE << e >> \o sorted

RECURSIVE StableSortDesc(_, _)
StableSortDesc(map, byAbs) ==
    IF map = << >> THEN << >>
    ELSE InsertSorted(Head(map), StableSortDesc(Tail(map), byAbs), byAbs)

\* the sort by absolute value in place of the sort by value
getSortedScoresByAbs(map) == StableSortDesc(map, TRUE)
\* Object.entries(scoreMap).sort((a, b) => b.value - a.value)
getSortedScores(map) == StableSortDesc(map, FALSE)

(***************************************************************************)
(* Conditions.  A ResultCondition is a record whose fields are optional:   *)
(* type, dim, op, a, b (strings), value, min, max, rank (numbers), dims    *)
(* (a list of strings).                                                    *)
(***************************************************************************)
NoCond == [ type |-> None, dim |-> None, op |-> None, value |-> None,
            min |-> None, max |-> None, a |-> None, b |-> None,
            rank |-> None, dims |-> None ]

\* JavaScript truthiness of an optional string
TruthyStr(opt) == opt # None /\ opt[1] # ""

\* scoreMap[id] ?? 0
ScoreOf(map, id) == OrElse(Get(map, id), 0)

\* sorted[k]?.id === cond.dim, k 0-based
SortedIdIs(sorted, k, dimOpt) ==
    IF k + 1 \in DOMAIN sorted
    THEN dimOpt # None /\ sorted[k + 1].id = dimOpt[1]
    ELSE dimOpt = None

SortedValue(sorted, k) == IF k + 1 \in DOMAIN sorted THEN sorted[k + 1].value ELSE 0

\* a sum over every entry of the vector
SumOverAll(dims, map) == SumValues(map)
RECURSIVE SumOver(_, _)
SumOver(dims, map) ==
    IF dims = << >> THEN 0 ELSE ScoreOf(map, Head(dims)) + SumOver(Tail(dims), map)

\* a minimum that is the first value
MinValueFirst(map) == map[1].value

MaxValue(map) == CHOOSE v \in { map[i].value : i \in DOMAIN map } :
                    \A i \in DOMAIN map : map[i].value <= v
MinValue(map) == CHOOSE v \in { map[i].value : i \in DOMAIN map } :
                    \A i \in DOMAIN map : map[i].value >= v

\* a legacy dialect whose absent lower bound is 0
legacyConditionMinZero(cond, map) ==
    LET value == ScoreOf(map, cond.dim[1]) IN
    IF cond.min # None \/ cond.max # None
    THEN /\ value >= OrElse(cond.min, 0)
         /\ (cond.max = None \/ value <= cond.max[1])
    ELSE LET op == IF TruthyStr(cond.op) THEN cond.op[1] ELSE "gte"
             target == OrElse(cond.value, 0)
         IN CASE op = "gt" -> value > target
              [] op = "lt" -> value < target
              [] op = "lte" -> value <= target
              [] op = "eq" -> value = target
              [] OTHER -> value >= target

\* the branch of meetsCondition for cond.dim && !cond.type
legacyCondition(cond, map) ==
    LET value == ScoreOf(map, cond.dim[1]) IN
    IF cond.min # None \/ cond.max # None
    THEN /\ (cond.min = None \/ value >= cond.min[1])
         /\ (cond.max = None \/ value <= cond.max[1])
    ELSE LET op == IF TruthyStr(cond.op) THEN cond.op[1] ELSE "gte"
             target == OrElse(cond.value, 0)
         IN CASE op = "gt" -> value > target
              [] op = "lt" -> value < target
              [] op = "lte" -> value <= target
              [] op = "eq" -> value = target
              [] OTHER -> value >= target

\* a switch that ends in default: return false
defaultCaseFalse == FALSE
\* default: return true
defaultCase == TRUE

typedCondition(cond, map) ==
    LET type == OrElse(cond.type, "")
        dim == IF TruthyStr(cond.dim) THEN cond.dim[1] ELSE "calm"
        value == OrElse(cond.value, 0)
        sorted == getSortedScores(map)
    IN CASE type = "min" -> ScoreOf(map, dim) >= value
         [] type = "max_le" -> ScoreOf(map, dim) <= value
         [] type = "max_ge" -> ScoreOf(map, dim) >= value
         [] type = "diff_greater" ->
                IF ~TruthyStr(cond.a) \/ ~TruthyStr(cond.b) THEN FALSE
                ELSE ScoreOf(map, cond.a[1]) > ScoreOf(map, cond.b[1]) + value
         [] type = "diff_abs_lte" ->
                IF ~TruthyStr(cond.a) \/ ~TruthyStr(cond.b) THEN FALSE
                ELSE Abs(ScoreOf(map, cond.a[1]) - ScoreOf(map, cond.b[1])) <= value
         [] type = "top_is" -> SortedIdIs(sorted, 0, cond.dim)
         [] type = "not_top_is" -> ~SortedIdIs(sorted, 0, cond.dim)
         [] type = "rank_is" ->
                LET rank == Max2(1, IF OrElse(cond.rank, 0) = 0 THEN 1 ELSE cond.rank[1])
                IN SortedIdIs(sorted, rank - 1, cond.dim)
         [] type = "top_diff_gte" -> SortedValue(sorted, 0) - SortedValue(sorted, 1) >= value
         [] type = "top_diff_lte" -> SortedValue(sorted, 0) - SortedValue(sorted, 1) <= value
         [] type = "total_min" -> SumValues(map) >= value
         [] type = "total_max" -> SumValues(map) <= value
         [] type = "sum_min" -> SumOver(OrElse(cond.dims, << >>), map) >= value
         [] type = "sum_max" -> SumOver(OrElse(cond.dims, << >>), map) <= value
         [] type = "spread_between" ->
                LET spread == IF map # << >> THEN MaxValue(map) - MinValue(map) ELSE 0
                IN /\ spread >= OrElse(cond.min, 0)
                   /\ (cond.max = None \/ spread <= cond.max[1])
         [] OTHER -> defaultCase

\* condOpt is None for a null / undefined condition
meetsCondition(condOpt, map) ==
    IF condOpt = None THEN TRUE
    ELSE LET cond == condOpt[1] IN
         IF TruthyStr(cond.dim) /\ ~TruthyStr(cond.type)
         THEN legacyCondition(cond, map)
         ELSE typedCondition(cond, map)

(***************************************************************************)
(* Result resolver.  A ResultProfile is a record [id, title, summary,      *)
(* priority, conditions, extra]; summary, priority and extra are optional, *)
(* an absent conditions list is the empty list.                            *)
(***************************************************************************)
\* conditions.some in place of conditions.every
resultMatchesSomeCondition(result, map) ==
    IF result.conditions = << >> THEN TRUE
    ELSE \E k \in DOMAIN result.conditions : meetsCondition(result.conditions[k], map)
resultMatchesConditions(result, map) ==
    IF result.conditions = << >> THEN TRUE
    ELSE \A k \in DOMAIN result.conditions : meetsCondition(result.conditions[k], map)

\* Number.isFinite(result.priority) ? Number(result.priority) : 0
PriorityOf(result) == OrElse(result.priority, 0)

\* results.filter(...): the positions (in results) of the matching results, in order
RECURSIVE FilterMatching(_, _, _)
FilterMatching(rs, map, i) ==
    IF i > Len(rs) THEN << >>
    ELSE (IF resultMatchesConditions(rs[i], map) THEN << i >> ELSE << >>)
         \o FilterMatching(rs, map, i + 1)

\* The tie-break on equal priority, as written: index, the position of the
\* candidate in candidates, is compared with results.indexOf(best), the
\* position of best in results (both 0-based).
TieReplaces(candIndex, bestIndex) == candIndex < bestIndex

\* priority > bestPriority, bestPriority being None for -Infinity
BeatsLower(priority, bestPriority) == bestPriority = None \/ priority < bestPriority[1]
Beats(priority, bestPriority) == bestPriority = None \/ priority > bestPriority[1]

\* candidates.forEach((result, index) => ...): best is a position in rs, 0 for null;
\* bestPriority is None for -Infinity
RECURSIVE ForEachCandidate(_, _, _, _, _)
ForEachCandidate(rs, candidates, k, best, bestPriority) ==
    IF k > Len(candidates) THEN best
    ELSE LET priority == PriorityOf(rs[candidates[k]]) IN
         IF Beats(priority, bestPriority)
         THEN ForEachCandidate(rs, candidates, k + 1, candidates[k], Some(priority))
         ELSE IF priority = bestPriority[1] /\ best # 0
              THEN IF TieReplaces(k - 1, best - 1)
                   THEN ForEachCandidate(rs, candidates, k + 1, candidates[k], bestPriority)
                   ELSE ForEachCandidate(rs, candidates, k + 1, best, bestPriority)
              ELSE ForEachCandidate(rs, candidates, k + 1, best, bestPriority)

\* The position in rs of the conditional winner, 0 for null
resolveConditionalResult(rs, map) ==
    LET candidates == FilterMatching(rs, map, 1) IN
    IF candidates = << >> THEN 0
    ELSE ForEachCandidate(rs, candidates, 1, 0, None)

\* a table that has lost its first line
fallbackMapWithoutCalm ==
    [ courage |-> "potion_top_courage",
      focus |-> "potion_top_focus", charm |-> "potion_top_charm",
      tempo |-> "potion_top_tempo", insight |-> "potion_top_insight",
      resolve |-> "potion_top_resolve", wonder |-> "potion_top_wonder" ]

\* const fallbackMap: Record<string, string>
fallbackMap ==
    [ calm |-> "potion_top_calm", courage |-> "potion_top_courage",
      focus |-> "potion_top_focus", charm |-> "potion_top_charm",
      tempo |-> "potion_top_tempo", insight |-> "potion_top_insight",
      resolve |-> "potion_top_resolve", wonder |-> "potion_top_wonder" ]

\* results.find((result) => result.id === id): a position, 0 for undefined
FindById(rs, id) ==
    IF \E i \in DOMAIN rs : rs[i].id = id
    THEN CHOOSE i \in DOMAIN rs : rs[i].id = id /\ \A j \in 1..(i - 1) : rs[j].id # id
    ELSE 0

Placeholder ==
    [ id |-> "fallback", title |-> "Your Potion", summary |-> Some(""),
      priority |-> None, conditions |-> << >>, extra |-> None ]

\* without the synthetic placeholder results[0] is undefined on an empty list
DefaultResultNoPlaceholder(rs) ==
    IF FindById(rs, "potion_calm") # 0 THEN Some(rs[FindById(rs, "potion_calm")])
    ELSE IF rs # << >> THEN Some(rs[1])
    ELSE None
\* results.find(potion_calm) || results[0] || { id: "fallback", ... }
DefaultResult(rs) ==
    IF FindById(rs, "potion_calm") # 0 THEN Some(rs[FindById(rs, "potion_calm")])
    ELSE IF rs # << >> THEN Some(rs[1])
    ELSE Some(Placeholder)

\* a label whose middle bucket starts at a total of 0
SignalFromZero(map) ==
    LET total == SumAbsValues(map) IN
    IF total > 18 THEN "High signal"
    ELSE IF total >= 0 THEN "Moderate signal" ELSE "Soft signal"

\* total > 18 ? "High signal" : total > 10 ? "Moderate signal" : "Soft signal"
Signal(map) ==
    LET total == SumAbsValues(map) IN
    IF total > 18 THEN "High signal"
    ELSE IF total > 10 THEN "Moderate signal" ELSE "Soft signal"

\* value || "" on an optional string
OrEmpty(opt) == IF TruthyStr(opt) THEN opt[1] ELSE ""

\* The record computeResult returns, wrapped as an optional: None stands for
\* a return of undefined.  path names the return statement taken.
computeResult(rs, map) ==
    LET conditional == resolveConditionalResult(rs, map)
        dominant == StableSortDesc(map, TRUE)
        defaultResult == DefaultResult(rs)
    IN IF conditional # 0
       THEN Some([ rs[conditional] EXCEPT !.summary = Some(OrEmpty(@)),
                                          !.extra = Some(OrEmpty(@)) ])
       ELSE IF defaultResult = None THEN None
       ELSE IF dominant = << >>
       THEN Some([ defaultResult[1] EXCEPT !.extra = Some(Signal(map)) ])
       ELSE LET top == dominant[1].id
                mappedId == IF top \in DOMAIN fallbackMap THEN Some(fallbackMap[top]) ELSE None
                found == IF mappedId = None THEN 0 ELSE FindById(rs, mappedId[1])
                resolved == IF found # 0 THEN rs[found] ELSE defaultResult[1]
            IN Some([ resolved EXCEPT
                        !.summary = Some(OrEmpty(@)),
                        !.extra = Some(IF Len(dominant) >= 2 /\ dominant[2].id # ""
                                       THEN "Dominant: " \o top \o ", Secondary: " \o dominant[2].id
                                       ELSE "Dominant: " \o top) ])


(***************************************************************************)
(* Text.  A JavaScript string that is encoded or parsed is the sequence of *)
(* its UTF-16 code units (natural numbers).  Strings that are only         *)
(* compared (ids, condition types) stay TLA+ strings; TextOf gives the     *)
(* code units of those that are serialised.                                *)
(***************************************************************************)
Replace(text, from, to) == [ i \in DOMAIN text |-> IF text[i] = from THEN to ELSE text[i] ]

RECURSIVE StripTrailing(_, _)
StripTrailing(text, c) ==
    IF text # << >> /\ text[Len(text)] = c
    THEN StripTrailing(SubSeq(text, 1, Len(text) - 1), c)
    ELSE text

RECURSIVE Repeat(_, _)
Repeat(c, n) == IF n <= 0 THEN << >> ELSE << c >> \o Repeat(c, n - 1)

(***************************************************************************)
(* btoa / atob (WHATWG forgiving-base64).  A throwing call returns None.   *)
(***************************************************************************)
B64Char(i) ==
    IF i < 26 THEN 65 + i
    ELSE IF i < 52 THEN 97 + (i - 26)
    ELSE IF i < 62 THEN 48 + (i - 52)
    ELSE IF i = 62 THEN 43 ELSE 47

B64Index(c) ==
    IF c \in 65..90 THEN Some(c - 65)
    ELSE IF c \in 97..122 THEN Some(c - 97 + 26)
    ELSE IF c \in 48..57 THEN Some(c - 48 + 52)
    ELSE IF c = 43 THEN Some(62)
    ELSE IF c = 47 THEN Some(63)
    ELSE None

RECURSIVE BtoaFrom(_, _)
BtoaFrom(text, i) ==
    LET n == Len(text) - i + 1 IN
    IF n <= 0 THEN << >>
    ELSE LET b1 == text[i]
             b2 == IF n >= 2 THEN text[i + 1] ELSE 0
             b3 == IF n >= 3 THEN text[i + 2] ELSE 0
         IN << B64Char(b1 \div 4),
               B64Char((b1 % 4) * 16 + b2 \div 16),
               IF n >= 2 THEN B64Char((b2 % 16) * 4 + b3 \div 64) ELSE 61,
               IF n >= 3 THEN B64Char(b3 % 64) ELSE 61 >>
            \o BtoaFrom(text, i + 3)

\* btoa throws InvalidCharacterError on a code unit above 0xFF
btoa(text) ==
    IF \E i \in DOMAIN text : text[i] > 255 THEN None ELSE Some(BtoaFrom(text, 1))

IsAsciiWhitespace(c) == c \in { 9, 10, 12, 13, 32 }
NotAsciiWhitespace(c) == ~IsAsciiWhitespace(c)

RECURSIVE AtobFrom(_, _)
AtobFrom(text, i) ==
    LET n == Len(text) - i + 1 IN
    IF n <= 0 THEN << >>
    ELSE LET s1 == B64Index(text[i])[1]
             s2 == IF n >= 2 THEN B64Index(text[i + 1])[1] ELSE 0
             s3 == IF n >= 3 THEN B64Index(text[i + 2])[1] ELSE 0
             s4 == IF n >= 4 THEN B64Index(text[i + 3])[1] ELSE 0
             b1 == s1 * 4 + s2 \div 16
             b2 == (s2 % 16) * 16 + s3 \div 4
             b3 == (s3 % 4) * 64 + s4
         IN (IF n >= 4 THEN << b1, b2, b3 >>
             ELSE IF n = 3 THEN << b1, b2 >>
             ELSE << b1 >>)
            \o AtobFrom(text, i + 4)

atob(text) ==
    LET stripped == SelectSeq(text, NotAsciiWhitespace)
        n == Len(stripped)
        unpadded ==
            IF n % 4 = 0 /\ n > 0 /\ stripped[n] = 61
            THEN IF stripped[n - 1] = 61 THEN SubSeq(stripped, 1, n - 2)
                 ELSE SubSeq(stripped, 1, n - 1)
            ELSE stripped
    IN IF \/ Len(unpadded) % 4 = 1
          \/ \E i \in DOMAIN unpadded : B64Index(unpadded[i]) = None
       THEN None
       ELSE Some(AtobFrom(unpadded, 1))

\* without .replace(/=+$/g, "")
toBase64UrlKeepPadding(text) ==
    IF btoa(text) = None THEN None
    ELSE Some(Replace(Replace(btoa(text)[1], 43, 45), 47, 95))
\* btoa(text).replace(/\+/g, "-").replace(/\//g, "_").replace(/=+$/g, "")
toBase64Url(text) ==
    IF btoa(text) = None THEN None
    ELSE Some(StripTrailing(Replace(Replace(btoa(text)[1], 43, 45), 47, 95), 61))

\* without the re-padding
fromBase64UrlNoPad(encoded) == atob(Replace(Replace(encoded, 45, 43), 95, 47))
fromBase64Url(encoded) ==
    LET padded == Replace(Replace(encoded, 45, 43), 95, 47)
        padLen == (4 - (Len(padded) % 4)) % 4
    IN atob(padded \o Repeat(61, padLen))

(***************************************************************************)
(* JSON values: [t |-> "null"], [t |-> "undef"] (undefined, an array       *)
(* hole), booleans, numbers n / d (d a power of ten, reduced), strings     *)
(* (code units), arrays, and objects as ordered lists of members [k, v].   *)
(***************************************************************************)
JNull == [ t |-> "null" ]
JUndef == [ t |-> "undef" ]
JBool(b) == [ t |-> "bool", b |-> b ]
JNum(n) == [ t |-> "num", n |-> n, d |-> 1 ]
JFrac(n, d) == [ t |-> "num", n |-> n, d |-> d ]
JStr(s) == [ t |-> "str", s |-> s ]
JArr(a) == [ t |-> "arr", a |-> a ]
JObj(o) == [ t |-> "obj", o |-> o ]

\* object[key]: the member's value, or None for undefined (the last
\* assignment to a repeated key wins)
Member(obj, key) ==
    IF \E i \in DOMAIN obj.o : obj.o[i].k = key
    THEN Some(obj.o[CHOOSE i \in DOMAIN obj.o : obj.o[i].k = key].v)
    ELSE None

SetMember(members, key, value) ==
    IF \E i \in DOMAIN members : members[i].k = key
    THEN [ i \in DOMAIN members |-> IF members[i].k = key
                                    THEN [k |-> key, v |-> value] ELSE members[i] ]
    ELSE Append(members, [k |-> key, v |-> value])

(***************************************************************************)
(* JSON.stringify                                                          *)
(***************************************************************************)
RECURSIVE Digits(_)
Digits(n) == IF n < 10 THEN << 48 + n >> ELSE Digits(n \div 10) \o << 48 + (n % 10) >>

\* integers only: the serialised numbers are v, rounded scores and indices
NumberText(n) == IF n < 0 THEN << 45 >> \o Digits(-n) ELSE Digits(n)

HexDigit(h) == IF h < 10 THEN 48 + h ELSE 97 + (h - 10)

EscapeUnit(c) ==
    IF c = 34 THEN << 92, 34 >>
    ELSE IF c = 92 THEN << 92, 92 >>
    ELSE IF c = 8 THEN << 92, 98 >>
    ELSE IF c = 9 THEN << 92, 116 >>
    ELSE IF c = 10 THEN << 92, 110 >>
    ELSE IF c = 12 THEN << 92, 102 >>
    ELSE IF c = 13 THEN << 92, 114 >>
    ELSE IF c < 32 THEN << 92, 117, 48, 48, HexDigit(c \div 16), HexDigit(c % 16) >>
    ELSE << c >>

RECURSIVE EscapeText(_)
EscapeText(s) == IF s = << >> THEN << >> ELSE EscapeUnit(Head(s)) \o EscapeText(Tail(s))

Quote(s) == << 34 >> \o EscapeText(s) \o << 34 >>

T_null == << 110, 117, 108, 108 >>
T_true == << 116, 114, 117, 101 >>
T_false == << 102, 97, 108, 115, 101 >>

RECURSIVE Stringify(_)
RECURSIVE StringifyElems(_, _)
RECURSIVE StringifyMembers(_, _, _)

\* the elements a[i..], comma separated; undefined and holes print as null
StringifyElems(a, i) ==
    IF i > Len(a) THEN << >>
    ELSE (IF i > 1 THEN << 44 >> ELSE << >>)
         \o (IF a[i].t = "undef" THEN T_null ELSE Stringify(a[i]))
         \o StringifyElems(a, i + 1)

\* the members o[i..]; members whose value is undefined are skipped
StringifyMembers(o, i, first) ==
    IF i > Len(o) THEN << >>
    ELSE IF o[i].v.t = "undef" THEN StringifyMembers(o, i + 1, first)
    ELSE (IF first THEN << >> ELSE << 44 >>)
         \o Quote(o[i].k) \o << 58 >> \o Stringify(o[i].v)
         \o StringifyMembers(o, i + 1, FALSE)

Stringify(v) ==
    CASE v.t = "null" -> T_null
      [] v.t = "bool" -> IF v.b THEN T_true ELSE T_false
      [] v.t = "num" -> NumberText(v.n)
      [] v.t = "str" -> Quote(v.s)
      [] v.t = "arr" -> << 91 >> \o StringifyElems(v.a, 1) \o << 93 >>
      [] v.t = "obj" -> << 123 >> \o StringifyMembers(v.o, 1, TRUE) \o << 125 >>

(***************************************************************************)
(* JSON.parse.  A parse step returns [ok, v, pos]: the value read and the  *)
(* position after it; a SyntaxError is [ok |-> FALSE].                     *)
(***************************************************************************)
ParseFail == [ ok |-> FALSE ]
ParseOk(v, pos) == [ ok |-> TRUE, v |-> v, pos |-> pos ]

IsDigit(c) == c \in 48..57
IsJsonWhitespace(c) == c \in { 9, 10, 13, 32 }
At(text, pos) == IF pos \in DOMAIN text THEN text[pos] ELSE 0

RECURSIVE SkipWs(_, _)
SkipWs(text, pos) ==
    IF pos \in DOMAIN text /\ IsJsonWhitespace(text[pos]) THEN SkipWs(text, pos + 1) ELSE pos

\* the first position at or after pos that holds no digit
RECURSIVE DigitsEnd(_, _)
DigitsEnd(text, pos) == IF IsDigit(At(text, pos)) THEN DigitsEnd(text, pos + 1) ELSE pos

\* the decimal value of text[from .. to - 1]
RECURSIVE DigitsValue(_, _, _)
DigitsValue(text, from, to) ==
    IF from >= to THEN 0
    ELSE DigitsValue(text, from, to - 1) * 10 + (text[to - 1] - 48)

RECURSIVE Pow10(_)
Pow10(k) == IF k <= 0 THEN 1 ELSE 10 * Pow10(k - 1)

RECURSIVE Gcd(_, _)
Gcd(a, b) == IF b = 0 THEN a ELSE Gcd(b, a % b)

Reduced(n, d) == LET g == Gcd(Abs(n), d) IN JFrac(n \div g, d \div g)

\* -? (0 | [1-9][0-9]*) (. [0-9]+)? ([eE] [+-]? [0-9]+)?
ParseNumber(text, pos) ==
    LET neg == At(text, pos) = 45
        intFrom == IF neg THEN pos + 1 ELSE pos
        intTo == DigitsEnd(text, intFrom)
        hasFrac == At(text, intTo) = 46
        fracFrom == intTo + 1
        fracTo == IF hasFrac THEN DigitsEnd(text, fracFrom) ELSE intTo
        hasExp == At(text, fracTo) \in { 69, 101 }
        expSigned == hasExp /\ At(text, fracTo + 1) \in { 43, 45 }
        expFrom == IF expSigned THEN fracTo + 2 ELSE fracTo + 1
        expTo == IF hasExp THEN DigitsEnd(text, expFrom) ELSE fracTo
        fracLen == IF hasFrac THEN fracTo - fracFrom ELSE 0
        mantissa == DigitsValue(text, intFrom, intTo) * Pow10(fracLen)
                    + (IF hasFrac THEN DigitsValue(text, fracFrom, fracTo) ELSE 0)
        exp == IF ~hasExp THEN 0
               ELSE IF At(text, fracTo + 1) = 45 THEN -DigitsValue(text, expFrom, expTo)
               ELSE DigitsValue(text, expFrom, expTo)
        num == (IF neg THEN -mantissa ELSE mantissa) * Pow10(exp - fracLen)
        den == Pow10(fracLen - exp)
    IN IF \/ intTo = intFrom
          \/ (At(text, intFrom) = 48 /\ intTo > intFrom + 1)
          \/ (hasFrac /\ fracTo = fracFrom)
          \/ (hasExp /\ expTo = expFrom)
       THEN ParseFail
       ELSE ParseOk(Reduced(num, den), expTo)

HexValue(c) ==
    IF c \in 48..57 THEN Some(c - 48)
    ELSE IF c \in 65..70 THEN Some(c - 55)
    ELSE IF c \in 97..102 THEN Some(c - 87)
    ELSE None

\* the characters of a string literal from pos (after the opening quote)
RECURSIVE ParseString(_, _, _)
ParseString(text, pos, acc) ==
    LET c == At(text, pos)
        e == At(text, pos + 1)
    IN IF pos > Len(text) \/ c < 32 THEN ParseFail
       ELSE IF c = 34 THEN ParseOk(JStr(acc), pos + 1)
       ELSE IF c # 92 THEN ParseString(text, pos + 1, Append(acc, c))
       ELSE IF e \in { 34, 92, 47 } THEN ParseString(text, pos + 2, Append(acc, e))
       ELSE IF e = 98 THEN ParseString(text, pos + 2, Append(acc, 8))
       ELSE IF e = 102 THEN ParseString(text, pos + 2, Append(acc, 12))
       ELSE IF e = 110 THEN ParseString(text, pos + 2, Append(acc, 10))
       ELSE IF e = 114 THEN ParseString(text, pos + 2, Append(acc, 13))
       ELSE IF e = 116 THEN ParseString(text, pos + 2, Append(acc, 9))
       ELSE IF e = 117 /\ \A k \in 2..5 : HexValue(At(text, pos + k)) # None
            THEN ParseString(text, pos + 6,
                             Append(acc, HexValue(text[pos + 2])[1] * 4096
                                         + HexValue(text[pos + 3])[1] * 256
                                         + HexValue(text[pos + 4])[1] * 16
                                         + HexValue(text[pos + 5])[1]))
       ELSE ParseFail

StartsWith(text, pos, word) ==
    /\ pos + Len(word) - 1 <= Len(text)
    /\ \A k \in DOMAIN word : text[pos + k - 1] = word[k]

RECURSIVE ParseValue(_, _)
RECURSIVE ParseElems(_, _, _)
RECURSIVE ParseMembers(_, _, _)

\* a value is expected at pos, then "," and more elements, or "]"
ParseElems(text, pos, acc) ==
    LET r == ParseValue(text, pos) IN
    IF ~r.ok THEN ParseFail
    ELSE LET next == SkipWs(text, r.pos) IN
         IF At(text, next) = 44 THEN ParseElems(text, next + 1, Append(acc, r.v))
         ELSE IF At(text, next) = 93 THEN ParseOk(JArr(Append(acc, r.v)), next + 1)
         ELSE ParseFail

\* a "key": value member is expected at pos, then "," and more, or "}"
ParseMembers(text, pos, acc) ==
    LET keyAt == SkipWs(text, pos)
        key == IF At(text, keyAt) = 34 THEN ParseString(text, keyAt + 1, << >>) ELSE ParseFail
    IN IF ~key.ok THEN ParseFail
       ELSE LET colon == SkipWs(text, key.pos)
                r == IF At(text, colon) = 58 THEN ParseValue(text, colon + 1) ELSE ParseFail
            IN IF ~r.ok THEN ParseFail
               ELSE LET next == SkipWs(text, r.pos)
                        members == SetMember(acc, key.v.s, r.v)
                    IN IF At(text, next) = 44 THEN ParseMembers(text, next + 1, members)
                       ELSE IF At(text, next) = 125 THEN ParseOk(JObj(members), next + 1)
                       ELSE ParseFail

ParseValue(text, pos0) ==
    LET pos == SkipWs(text, pos0)
        c == At(text, pos)
    IN IF pos > Len(text) THEN ParseFail
       ELSE IF c = 123
            THEN IF At(text, SkipWs(text, pos + 1)) = 125
                 THEN ParseOk(JObj(<< >>), SkipWs(text, pos + 1) + 1)
                 ELSE ParseMembers(text, pos + 1, << >>)
       ELSE IF c = 91
            THEN IF At(text, SkipWs(text, pos + 1)) = 93
                 THEN ParseOk(JArr(<< >>), SkipWs(text, pos + 1) + 1)
                 ELSE ParseElems(text, pos + 1, << >>)
       ELSE IF c = 34 THEN ParseString(text, pos + 1, << >>)
       ELSE IF c = 45 \/ IsDigit(c) THEN ParseNumber(text, pos)
       ELSE IF StartsWith(text, pos, T_true) THEN ParseOk(JBool(TRUE), pos + 4)
       ELSE IF StartsWith(text, pos, T_false) THEN ParseOk(JBool(FALSE), pos + 5)
       ELSE IF StartsWith(text, pos, T_null) THEN ParseOk(JNull, pos + 4)
       ELSE ParseFail

\* JSON.parse(text): None when it throws SyntaxError
JSONparse(text) ==
    LET r == ParseValue(text, 1) IN
    IF r.ok /\ SkipWs(text, r.pos) > Len(text) THEN Some(r.v) ELSE None

(***************************************************************************)
(* Number(value).  The result is [fin |-> TRUE, n, d] for the finite       *)
(* number n / d and [fin |-> FALSE] for NaN and the infinities, which      *)
(* Number.isFinite does not tell apart.                                    *)
(***************************************************************************)
NonFinite == [ fin |-> FALSE ]
Finite(n, d) == [ fin |-> TRUE, n |-> n, d |-> d ]

IsStrWhitespace(c) == c \in { 9, 10, 11, 12, 13, 32, 160, 5760, 8232, 8233, 8239, 8287, 12288, 65279 }
                      \/ c \in 8192..8202

RECURSIVE TrimLeft(_)
TrimLeft(s) == IF s # << >> /\ IsStrWhitespace(Head(s)) THEN TrimLeft(Tail(s)) ELSE s

RECURSIVE TrimRight(_)
TrimRight(s) ==
    IF s # << >> /\ IsStrWhitespace(s[Len(s)]) THEN TrimRight(SubSeq(s, 1, Len(s) - 1)) ELSE s

RadixDigit(c, radix) ==
    IF HexValue(c) # None /\ HexValue(c)[1] < radix THEN HexValue(c) ELSE None

RECURSIVE RadixValue(_, _, _)
RadixValue(s, to, radix) ==
    IF to < 3 THEN 0 ELSE RadixValue(s, to - 1, radix) * radix + RadixDigit(s[to], radix)[1]

\* StrDecimalLiteral: [+-]? (digits (. digits?)? | . digits) ([eE] [+-]? digits)?
DecimalLiteral(s) ==
    LET signed == At(s, 1) \in { 43, 45 }
        intFrom == IF signed THEN 2 ELSE 1
        intTo == DigitsEnd(s, intFrom)
        hasDot == At(s, intTo) = 46
        fracFrom == intTo + 1
        fracTo == IF hasDot THEN DigitsEnd(s, fracFrom) ELSE intTo
        hasExp == At(s, fracTo) \in { 69, 101 }
        expSigned == hasExp /\ At(s, fracTo + 1) \in { 43, 45 }
        expFrom == IF expSigned THEN fracTo + 2 ELSE fracTo + 1
        expTo == IF hasExp THEN DigitsEnd(s, expFrom) ELSE fracTo
        fracLen == IF hasDot THEN fracTo - fracFrom ELSE 0
        mantissa == DigitsValue(s, intFrom, intTo) * Pow10(fracLen)
                    + (IF hasDot THEN DigitsValue(s, fracFrom, fracTo) ELSE 0)
        exp == IF ~hasExp THEN 0
               ELSE IF At(s, fracTo + 1) = 45 THEN -DigitsValue(s, expFrom, expTo)
               ELSE DigitsValue(s, expFrom, expTo)
        num == (IF At(s, 1) = 45 THEN -mantissa ELSE mantissa) * Pow10(exp - fracLen)
        den == Pow10(fracLen - exp)
    IN IF \/ (intTo = intFrom /\ fracLen = 0)
          \/ (hasExp /\ expTo = expFrom)
          \/ expTo # Len(s) + 1
       THEN NonFinite
       ELSE Finite(Reduced(num, den).n, Reduced(num, den).d)

\* StringToNumber: "" is 0; 0x / 0o / 0b literals; decimal literals; else NaN
StringToNumber(str) ==
    LET s == TrimRight(TrimLeft(str))
        radix == IF At(s, 1) # 48 THEN 0
                 ELSE IF At(s, 2) \in { 88, 120 } THEN 16
                 ELSE IF At(s, 2) \in { 79, 111 } THEN 8
                 ELSE IF At(s, 2) \in { 66, 98 } THEN 2 ELSE 0
    IN IF s = << >> THEN Finite(0, 1)
       ELSE IF radix # 0
            THEN IF Len(s) >= 3 /\ \A i \in 3..Len(s) : RadixDigit(s[i], radix) # None
                 THEN Finite(RadixValue(s, Len(s), radix), 1)
                 ELSE NonFinite
       ELSE DecimalLiteral(s)

\* the digits of the fraction rem / d, d dividing a power of ten
RECURSIVE FractionDigits(_, _)
FractionDigits(rem, d) ==
    IF rem = 0 THEN << >>
    ELSE << 48 + ((rem * 10) \div d) >> \o FractionDigits((rem * 10) % d, d)

\* Number.prototype.toString for the magnitudes that print without exponent
NumberToString(n, d) ==
    (IF n < 0 THEN << 45 >> ELSE << >>)
    \o Digits(Abs(n) \div d)
    \o (IF Abs(n) % d = 0 THEN << >> ELSE << 46 >> \o FractionDigits(Abs(n) % d, d))

T_objectObject == << 91, 111, 98, 106, 101, 99, 116, 32, 79, 98, 106, 101, 99, 116, 93 >>

\* String(value), as Number applies it to arrays
RECURSIVE ToStringJV(_)
RECURSIVE JoinJV(_, _)
JoinJV(a, i) ==
    IF i > Len(a) THEN << >>
    ELSE (IF i > 1 THEN << 44 >> ELSE << >>)
         \o (IF a[i].t \in { "null", "undef" } THEN << >> ELSE ToStringJV(a[i]))
         \o JoinJV(a, i + 1)
ToStringJV(v) ==
    CASE v.t = "str" -> v.s
      [] v.t = "num" -> NumberToString(v.n, v.d)
      [] v.t = "bool" -> IF v.b THEN T_true ELSE T_false
      [] v.t = "arr" -> JoinJV(v.a, 1)
      [] v.t = "obj" -> T_objectObject
      [] OTHER -> << >>

\* Number(value): valueOpt is None for undefined
ToNumber(valueOpt) ==
    IF valueOpt = None THEN NonFinite
    ELSE LET v == valueOpt[1] IN
         CASE v.t = "undef" -> NonFinite
           [] v.t = "null" -> Finite(0, 1)
           [] v.t = "bool" -> Finite(IF v.b THEN 1 ELSE 0, 1)
           [] v.t = "num" -> Finite(v.n, v.d)
           [] v.t = "str" -> StringToNumber(v.s)
           [] v.t = "arr" -> StringToNumber(ToStringJV(v))
           [] v.t = "obj" -> NonFinite

\* Math.round: the nearest integer, halves towards +Infinity
MathRound(num) == (2 * num.n + num.d) \div (2 * num.d)

IsInteger(num) == num.fin /\ num.d = 1

(***************************************************************************)
(* encodeURIComponent / decodeURIComponent (UTF-8 percent-encoding).       *)
(* A URIError is None.                                                     *)
(***************************************************************************)
IsUriUnreserved(c) ==
    \/ c \in 48..57 \/ c \in 65..90 \/ c \in 97..122
    \/ c \in { 45, 95, 46, 33, 126, 42, 39, 40, 41 }

UpperHex(h) == IF h < 10 THEN 48 + h ELSE 65 + (h - 10)
PercentByte(b) == << 37, UpperHex(b \div 16), UpperHex(b % 16) >>

Utf8(cp) ==
    IF cp < 128 THEN PercentByte(cp)
    ELSE IF cp < 2048 THEN PercentByte(192 + cp \div 64) \o PercentByte(128 + (cp % 64))
    ELSE IF cp < 65536
         THEN PercentByte(224 + cp \div 4096) \o PercentByte(128 + ((cp \div 64) % 64))
              \o PercentByte(128 + (cp % 64))
    ELSE PercentByte(240 + cp \div 262144) \o PercentByte(128 + ((cp \div 4096) % 64))
         \o PercentByte(128 + ((cp \div 64) % 64)) \o PercentByte(128 + (cp % 64))

IsHighSurrogate(c) == c \in 55296..56319
IsLowSurrogate(c) == c \in 56320..57343

RECURSIVE EncodeUriFrom(_, _)
EncodeUriFrom(text, i) ==
    IF i > Len(text) THEN Some(<< >>)
    ELSE LET c == text[i]
             pair == IsHighSurrogate(c) /\ IsLowSurrogate(At(text, i + 1))
             here == IF IsUriUnreserved(c) THEN << c >>
                     ELSE IF pair
                          THEN Utf8(65536 + (c - 55296) * 1024 + (text[i + 1] - 56320))
                     ELSE Utf8(c)
             rest == EncodeUriFrom(text, IF pair THEN i + 2 ELSE i + 1)
         IN IF (IsHighSurrogate(c) \/ IsLowSurrogate(c)) /\ ~pair THEN None
            ELSE IF rest = None THEN None
            ELSE Some(here \o rest[1])

encodeURIComponent(text) == EncodeUriFrom(text, 1)

\* the byte written %XX at pos, or None
ByteAt(text, pos) ==
    IF /\ At(text, pos) = 37
       /\ HexValue(At(text, pos + 1)) # None
       /\ HexValue(At(text, pos + 2)) # None
    THEN Some(HexValue(text[pos + 1])[1] * 16 + HexValue(text[pos + 2])[1])
    ELSE None

IsContinuation(text, pos) == ByteAt(text, pos) # None /\ ByteAt(text, pos)[1] \in 128..191
ContinuationBits(text, pos) == ByteAt(text, pos)[1] - 128

CodeUnits(cp) ==
    IF cp < 65536 THEN << cp >>
    ELSE << 55296 + (cp - 65536) \div 1024, 56320 + ((cp - 65536) % 1024) >>

RECURSIVE DecodeUriFrom(_, _)
DecodeUriFrom(text, i) ==
    IF i > Len(text) THEN Some(<< >>)
    ELSE IF text[i] # 37
         THEN LET rest == DecodeUriFrom(text, i + 1) IN
              IF rest = None THEN None ELSE Some(<< text[i] >> \o rest[1])
    ELSE IF ByteAt(text, i) = None THEN None
    ELSE LET b == ByteAt(text, i)[1]
             extra == IF b < 128 THEN 0
                      ELSE IF b \in 194..223 THEN 1
                      ELSE IF b \in 224..239 THEN 2
                      ELSE IF b \in 240..244 THEN 3 ELSE 4
             cp == IF extra = 0 THEN b
                   ELSE IF extra = 1 THEN (b - 192) * 64 + ContinuationBits(text, i + 3)
                   ELSE IF extra = 2
                        THEN (b - 224) * 4096 + ContinuationBits(text, i + 3) * 64
                             + ContinuationBits(text, i + 6)
                   ELSE (b - 240) * 262144 + ContinuationBits(text, i + 3) * 4096
                        + ContinuationBits(text, i + 6) * 64 + ContinuationBits(text, i + 9)
         IN IF extra = 4 \/ \E k \in 1..extra : ~IsContinuation(text, i + 3 * k) THEN None
            ELSE IF \/ (extra = 2 /\ (cp < 2048 \/ cp \in 55296..57343))
                    \/ (extra = 3 /\ (cp < 65536 \/ cp > 1114111))
                 THEN None
            ELSE LET rest == DecodeUriFrom(text, i + 3 * (extra + 1)) IN
                 IF rest = None THEN None ELSE Some(CodeUnits(cp) \o rest[1])

decodeURIComponent(text) == DecodeUriFrom(text, 1)

(***************************************************************************)
(* The code units of the ids that are serialised.  "potion_u96EA" names    *)
(* the id "potion_" followed by the single code unit U+96EA (a CJK         *)
(* character, above 0xFF).                                                 *)
(***************************************************************************)
TextOf ==
       ("calm" :> << 99, 97, 108, 109 >>)
    @@ ("courage" :> << 99, 111, 117, 114, 97, 103, 101 >>)
    @@ ("zeal" :> << 122, 101, 97, 108 >>)
    @@ ("potion_calm" :> << 112, 111, 116, 105, 111, 110, 95, 99, 97, 108, 109 >>)
    @@ ("potion_top_calm" :> << 112, 111, 116, 105, 111, 110, 95, 116, 111, 112, 95, 99, 97, 108, 109 >>)
    @@ ("potion_top_courage" :> << 112, 111, 116, 105, 111, 110, 95, 116, 111, 112, 95, 99, 111, 117, 114, 97, 103, 101 >>)
    @@ ("potion_mist" :> << 112, 111, 116, 105, 111, 110, 95, 109, 105, 115, 116 >>)
    @@ ("potion_never" :> << 112, 111, 116, 105, 111, 110, 95, 110, 101, 118, 101, 114 >>)
    @@ ("potion_blocked" :> << 112, 111, 116, 105, 111, 110, 95, 98, 108, 111, 99, 107, 101, 100 >>)
    @@ ("potion_void" :> << 112, 111, 116, 105, 111, 110, 95, 118, 111, 105, 100 >>)
    @@ ("fallback" :> << 102, 97, 108, 108, 98, 97, 99, 107 >>)
    @@ ("potion_u96EA" :> << 112, 111, 116, 105, 111, 110, 95, 38634 >>)

T_v == << 118 >>
T_resultId == << 114, 101, 115, 117, 108, 116, 73, 100 >>
T_scores == << 115, 99, 111, 114, 101, 115 >>
T_answers == << 97, 110, 115, 119, 101, 114, 115 >>

(***************************************************************************)
(* lib/quiz.ts: score normalisation and the two URL codecs                 *)
(***************************************************************************)
\* input?.[key]: undefined unless input is an object that has the key
Lookup(inputOpt, key) ==
    IF inputOpt = None \/ inputOpt[1].t # "obj" THEN None ELSE Member(inputOpt[1], key)

\* Number.isFinite(value) ? Math.round(value) : 0, without the clamp
RoundedUnclamped(value, min, max) ==
    IF value.fin THEN MathRound(value) ELSE 0
\* Number.isFinite(value) ? clamp(Math.round(value), min, max) : 0
ClampRounded(value, min, max) ==
    IF value.fin THEN clamp(MathRound(value), min, max) ELSE 0

\* const value = Number(input?.[dimension.id])
NormalizedValue(valueOpt, min, max) == ClampRounded(ToNumber(valueOpt), min, max)

RECURSIVE NormalizeFrom(_, _, _, _, _, _)
NormalizeFrom(inputOpt, dimensions, i, min, max, normalized) ==
    IF i > Len(dimensions) THEN normalized
    ELSE NormalizeFrom(inputOpt, dimensions, i + 1, min, max,
                       Put(normalized, dimensions[i],
                           NormalizedValue(Lookup(inputOpt, TextOf[dimensions[i]]), min, max)))

\* inputOpt is None for null / undefined, else a JSON value
normalizeScoresForDimensions(inputOpt, dimensions, min, max) ==
    NormalizeFrom(inputOpt, dimensions, 1, min, max, << >>)

\* a ScoreMap as the object JSON.stringify and input?.[id] see
ScoreMapJV(map) ==
    JObj([ i \in DOMAIN map |-> [ k |-> TextOf[map[i].id], v |-> JNum(map[i].value) ] ])

encodeLegacyScoresForUrl(map, dimensions) ==
    encodeURIComponent(
        Stringify(ScoreMapJV(normalizeScoresForDimensions(Some(ScoreMapJV(map)),
                                                          dimensions, -10, 10))))

\* JSON.parse of a text that may not have come about: None when either throws
ParsedText(textOpt) == IF textOpt = None THEN None ELSE JSONparse(textOpt[1])

\* the legacy scores of what was parsed; the catch block gives null
LegacyScoresOf(parsed, dimensions) ==
    IF parsed = None THEN None
    ELSE Some(normalizeScoresForDimensions(parsed, dimensions, -10, 10))

\* rawOpt is None for null; the result is None for null
decodeLegacyScoresFromUrl(rawOpt, dimensions) ==
    IF rawOpt = None \/ rawOpt[1] = << >> THEN None
    ELSE LegacyScoresOf(ParsedText(decodeURIComponent(rawOpt[1])), dimensions)

\* payload is a JSON value; None when btoa throws
encodeShareState(payload) == toBase64Url(Stringify(payload))

\* a check that accepts any v
VersionUnchecked(parsed) == parsed.t # "obj"
\* parsed?.v !== 1
VersionIsNotOne(parsed) ==
    \/ parsed.t # "obj"
    \/ Member(parsed, T_v) # Some(JNum(1))
\* typeof parsed.resultId !== "string"
ResultIdIsNoString(parsed) ==
    \/ Member(parsed, T_resultId) = None
    \/ Member(parsed, T_resultId)[1].t # "str"

\* the checks on what was parsed; the catch block gives null
CheckedState(parsed) ==
    IF parsed = None THEN None
    ELSE IF VersionIsNotOne(parsed[1]) \/ ResultIdIsNoString(parsed[1]) THEN None
    ELSE parsed

\* rawOpt is None for null; the result is None for null, else the parsed object
decodeShareState(rawOpt) ==
    IF rawOpt = None \/ rawOpt[1] = << >> THEN None
    ELSE CheckedState(ParsedText(fromBase64Url(rawOpt[1])))

(***************************************************************************)
(* App.tsx: restoring from and writing to the URL.  A url is the record of *)
(* the three query parameters, each an optional text (URLSearchParams.get  *)
(* gives back the very string URLSearchParams.set stored).  QuizData is a  *)
(* record [dimensions, questions, results]; a dimension is its id.         *)
(***************************************************************************)
NoUrl == [ state |-> None, result |-> None, scores |-> None ]

Hole == -1    \* an array slot never assigned (answers is number[])

\* a find that gives the first result for an unknown id
FindByTextOrFirst(rs, text) ==
    IF \E i \in DOMAIN rs : TextOf[rs[i].id] = text
    THEN CHOOSE i \in DOMAIN rs :
            TextOf[rs[i].id] = text /\ \A j \in 1..(i - 1) : TextOf[rs[j].id] # text
    ELSE IF rs # << >> THEN 1 ELSE 0
\* data.results.find((item) => item.id === text): a position, 0 for undefined
FindByText(rs, text) ==
    IF \E i \in DOMAIN rs : TextOf[rs[i].id] = text
    THEN CHOOSE i \in DOMAIN rs :
            TextOf[rs[i].id] = text /\ \A j \in 1..(i - 1) : TextOf[rs[j].id] # text
    ELSE 0

\* .map((value) => Number(value)).filter((value) => Number.isInteger(value) && value >= 0)
\* what .filter keeps of one mapped value
KeptAnswer(value) == IF IsInteger(value) /\ value.n >= 0 THEN << value.n >> ELSE << >>

RECURSIVE MapFilterAnswers(_, _)
MapFilterAnswers(a, i) ==
    IF i > Len(a) THEN << >>
    ELSE KeptAnswer(ToNumber(Some(a[i]))) \o MapFilterAnswers(a, i + 1)

RestoredAnswers(answersOpt) ==
    IF answersOpt # None /\ answersOpt[1].t = "arr"
    THEN MapFilterAnswers(answersOpt[1].a, 1)
    ELSE << >>

\* first || second on optional values
FirstOf(first, second) == IF first # None THEN first ELSE second

\* the legacy branch: result id with the legacy scores
restoreLegacy(d, u) ==
    IF u.result = None \/ u.result[1] = << >> THEN None
    ELSE IF FindByText(d.results, u.result[1]) = 0 THEN None
    ELSE Some([ result |-> d.results[FindByText(d.results, u.result[1])],
                scores |-> FirstOf(decodeLegacyScoresFromUrl(u.scores, d.dimensions),
                                   Some(createInitialScores(d.dimensions)))[1],
                answers |-> << >> ])

\* sharedState?.resultId as a text, empty when there is none
ResultIdOf(sharedState) ==
    IF sharedState = None THEN << >> ELSE Member(sharedState[1], T_resultId)[1].s

\* the versioned branch for a decoded state: None when it does not return
restoreShared(d, sharedState) ==
    IF ResultIdOf(sharedState) = << >> \/ FindByText(d.results, ResultIdOf(sharedState)) = 0
    THEN None
    ELSE Some([ result |-> d.results[FindByText(d.results, ResultIdOf(sharedState))],
                scores |-> normalizeScoresForDimensions(
                               Lookup(sharedState, T_scores), d.dimensions, -20, 20),
                answers |-> RestoredAnswers(Lookup(sharedState, T_answers)) ])

restoreVersioned(d, u) == restoreShared(d, decodeShareState(u.state))

\* the legacy parameters tried before the versioned one
restoreLegacyFirst(d, u) == FirstOf(restoreLegacy(d, u), restoreVersioned(d, u))
\* RestoredState | null
restoreFromUrl(d, u) == FirstOf(restoreVersioned(d, u), restoreLegacy(d, u))

AnswersJV(answerList) ==
    JArr([ i \in DOMAIN answerList |->
             IF answerList[i] = Hole THEN JUndef ELSE JNum(answerList[i]) ])

\* SharedStateV1 as the object handed to JSON.stringify
SharedPayload(resultId, map, answerList) ==
    JObj(<< [ k |-> T_v, v |-> JNum(1) ],
            [ k |-> T_resultId, v |-> JStr(TextOf[resultId]) ],
            [ k |-> T_scores, v |-> ScoreMapJV(map) ],
            [ k |-> T_answers, v |-> AnswersJV(answerList) ] >>)

\* the three searchParams.set calls and replaceState; u stays when
\* encodeURIComponent or btoa threw before replaceState was reached
WrittenUrl(u, resultId, legacyScores, state) ==
    IF legacyScores = None \/ state = None THEN u
    ELSE [ state |-> state, result |-> Some(TextOf[resultId]), scores |-> legacyScores ]

\* a state parameter that carries the legacy-clamped scores
StateParamLegacyClamp(resultId, map, answerList, dimensions) ==
    encodeShareState(
        SharedPayload(resultId,
                      normalizeScoresForDimensions(Some(ScoreMapJV(map)), dimensions, -10, 10),
                      answerList))
\* encodeShareState(sharedPayload)
StateParam(resultId, map, answerList, dimensions) ==
    encodeShareState(
        SharedPayload(resultId,
                      normalizeScoresForDimensions(Some(ScoreMapJV(map)), dimensions, -20, 20),
                      answerList))

\* the url after updateUrlState
updateUrlState(u, resultIdOpt, scoreMapOpt, answersOpt, dimensions) ==
    IF resultIdOpt = None \/ resultIdOpt[1] = "" \/ scoreMapOpt = None THEN NoUrl
    ELSE WrittenUrl(u, resultIdOpt[1],
                    encodeLegacyScoresForUrl(scoreMapOpt[1], dimensions),
                    StateParam(resultIdOpt[1], scoreMapOpt[1], OrElse(answersOpt, << >>),
                               dimensions))

(***************************************************************************)
(* App.tsx: the handlers                                                   *)
(***************************************************************************)
\* data?.questions[index] || null
CurrentQuestion(d, i) ==
    IF d # None /\ i + 1 \in DOMAIN d[1].questions THEN Some(d[1].questions[i + 1]) ELSE None

\* a weight that is not a finite number counted as 1
NonFiniteAsOne(deltaOpt) == OrElse(deltaOpt, 1)
\* Number.isFinite(numericDelta) ? numericDelta : 0; a weight that is not a
\* finite number is None
FiniteDelta(deltaOpt) == OrElse(deltaOpt, 0)

\* Object.entries(option.weights || {}).forEach(...) from entry i on
RECURSIVE ApplyWeights(_, _, _)
ApplyWeights(nextScores, weights, i) ==
    IF i > Len(weights) THEN nextScores
    ELSE ApplyWeights(
             Put(nextScores, weights[i].id,
                 clamp(ScoreOf(nextScores, weights[i].id) + FiniteDelta(weights[i].delta),
                       -20, 20)),
             weights, i + 1)

\* nextAnswers[index] = optionIndex (index 0-based)
RECURSIVE SetAnswer(_, _, _)
SetAnswer(answerList, i, optionIndex) ==
    IF i < Len(answerList)
    THEN [ answerList EXCEPT ![i + 1] = optionIndex ]
    ELSE IF i = Len(answerList) THEN Append(answerList, optionIndex)
    ELSE SetAnswer(Append(answerList, Hole), i, optionIndex)

\* an init effect that resolves the restored vector anew
MountResolved(d, restored) ==
    IF restored # None
    THEN /\ scores' = restored[1].scores
         /\ answers' = restored[1].answers
         /\ index' = Min2(Len(restored[1].answers), Max2(Len(d.questions) - 1, 0))
         /\ finished' = TRUE
         /\ lastResult' = computeResult(d.results, restored[1].scores)
    ELSE /\ scores' = createInitialScores(d.dimensions)
         /\ answers' = << >>
         /\ index' = 0
         /\ finished' = FALSE
         /\ lastResult' = None
\* the setState calls of the init effect for what restoreFromUrl gave
Mount(d, restored) ==
    IF restored # None
    THEN /\ scores' = restored[1].scores
         /\ answers' = restored[1].answers
         /\ index' = Min2(Len(restored[1].answers), Max2(Len(d.questions) - 1, 0))
         /\ finished' = TRUE
         /\ lastResult' = Some(restored[1].result)
    ELSE /\ scores' = createInitialScores(d.dimensions)
         /\ answers' = << >>
         /\ index' = 0
         /\ finished' = FALSE
         /\ lastResult' = None

\* the init effect once the three fetches have resolved
InitEffect ==
    /\ data = None
    /\ files # None
    /\ data' = files
    /\ Mount(files[1], restoreFromUrl(files[1], url))
    /\ UNCHANGED << files, answeringLocked, transitionTimeout, url >>
    /\ UNCHANGED << resolverVars, codecVars >>

finalizeQuiz(nextScores, nextAnswers, resolvedResult) ==
    /\ finished' = TRUE
    /\ lastResult' = Some(resolvedResult)
    /\ url' = updateUrlState(url, Some(resolvedResult.id), Some(nextScores),
                             Some(nextAnswers), data[1].dimensions)

\* a handler that resolves the vector of the last render
AnswerResolvingOld(nextScores, nextAnswers) ==
    /\ answeringLocked' = TRUE
    /\ scores' = nextScores
    /\ answers' = nextAnswers
    /\ IF index < Len(data[1].questions) - 1
       THEN /\ transitionTimeout' = TRUE
            /\ UNCHANGED << finished, lastResult, url >>
       ELSE /\ finalizeQuiz(nextScores, nextAnswers,
                            computeResult(data[1].results, scores)[1])
            /\ UNCHANGED transitionTimeout
    /\ UNCHANGED << files, data, index >>
    /\ UNCHANGED << resolverVars, codecVars >>

\* the body of handleAnswer past its guard
Answer(nextScores, nextAnswers) ==
    /\ answeringLocked' = TRUE
    /\ scores' = nextScores
    /\ answers' = nextAnswers
    /\ IF index < Len(data[1].questions) - 1
       THEN /\ transitionTimeout' = TRUE
            /\ UNCHANGED << finished, lastResult, url >>
       ELSE /\ finalizeQuiz(nextScores, nextAnswers,
                            computeResult(data[1].results, nextScores)[1])
            /\ UNCHANGED transitionTimeout
    /\ UNCHANGED << files, data, index >>
    /\ UNCHANGED << resolverVars, codecVars >>

\* a handler whose guard leaves out answeringLocked
HandleAnswerWhileLocked(k) ==
    /\ CurrentQuestion(data, index) # None
    /\ k \in DOMAIN CurrentQuestion(data, index)[1].options
    /\ IF finished
       THEN UNCHANGED << resolverVars, codecVars, reactVars >>
       ELSE Answer(ApplyWeights(scores, CurrentQuestion(data, index)[1].options[k].weights, 1),
                   SetAnswer(answers, index, k - 1))
\* a handler whose guard leaves out finished
HandleAnswerWhileFinished(k) ==
    /\ CurrentQuestion(data, index) # None
    /\ k \in DOMAIN CurrentQuestion(data, index)[1].options
    /\ IF answeringLocked
       THEN UNCHANGED << resolverVars, codecVars, reactVars >>
       ELSE Answer(ApplyWeights(scores, CurrentQuestion(data, index)[1].options[k].weights, 1),
                   SetAnswer(answers, index, k - 1))
\* a click on option k (1-based) of the current question
HandleAnswer(k) ==
    /\ CurrentQuestion(data, index) # None
    /\ k \in DOMAIN CurrentQuestion(data, index)[1].options
    /\ IF answeringLocked \/ finished
       THEN UNCHANGED << resolverVars, codecVars, reactVars >>
       ELSE Answer(ApplyWeights(scores, CurrentQuestion(data, index)[1].options[k].weights, 1),
                   SetAnswer(answers, index, k - 1))

\* the 350 ms transition timer fires
TransitionTimer ==
    /\ transitionTimeout
    /\ index' = Min2(index + 1, Len(data[1].questions) - 1)
    /\ answeringLocked' = FALSE
    /\ transitionTimeout' = FALSE
    /\ UNCHANGED << files, data, scores, answers, finished, lastResult, url >>
    /\ UNCHANGED << resolverVars, codecVars >>

\* a reset that leaves a pending transition timer running
HandleResetKeepingTimer ==
    /\ data # None
    /\ index' = 0
    /\ finished' = FALSE
    /\ answeringLocked' = FALSE
    /\ answers' = << >>
    /\ scores' = createInitialScores(data[1].dimensions)
    /\ lastResult' = None
    /\ url' = updateUrlState(url, None, None, None, data[1].dimensions)
    /\ UNCHANGED << files, data, transitionTimeout >>
    /\ UNCHANGED << resolverVars, codecVars >>

\* handleReset: the Restart button
HandleReset ==
    /\ data # None
    /\ transitionTimeout' = FALSE
    /\ index' = 0
    /\ finished' = FALSE
    /\ answeringLocked' = FALSE
    /\ answers' = << >>
    /\ scores' = createInitialScores(data[1].dimensions)
    /\ lastResult' = None
    /\ url' = updateUrlState(url, None, None, None, data[1].dimensions)
    /\ UNCHANGED << files, data >>
    /\ UNCHANGED << resolverVars, codecVars >>

\* the page is opened again at the current URL: the component mounts anew
Reopen ==
    /\ data # None
    /\ data' = None
    /\ index' = 0 /\ scores' = << >> /\ answers' = << >>
    /\ finished' = FALSE /\ lastResult' = None
    /\ answeringLocked' = FALSE /\ transitionTimeout' = FALSE
    /\ UNCHANGED << files, url >>
    /\ UNCHANGED << resolverVars, codecVars >>

(***************************************************************************)
(* Bounds and input pools                                                  *)
(***************************************************************************)
MaxResults == 4      \* longest results list handed to computeResult

Cond(type) == [ NoCond EXCEPT !.type = Some(type) ]

Profile(id, priority, conditions) ==
    [ id |-> id, title |-> id, summary |-> Some("A " \o id), priority |-> priority,
      conditions |-> conditions, extra |-> None ]

\* result profiles for the resolver: always eligible, never eligible and
\* vector-dependent ones, with tied, absent and negative priorities
ResultPool ==
    { Profile("potion_calm", None, << >>),
      [ Profile("potion_mist", Some(5), << >>) EXCEPT !.summary = None ],
      Profile("potion_top_calm", Some(5),
              << Some([ Cond("min") EXCEPT !.dim = Some("calm"), !.value = Some(4) ]) >>),
      Profile("potion_top_courage", Some(5),
              << Some([ Cond("top_is") EXCEPT !.dim = Some("courage") ]) >>),
      Profile("potion_never", Some(9), << Some(Cond("diff_greater")) >>),
      Profile("potion_blocked", Some(9),
              << Some([ Cond("min") EXCEPT !.dim = Some("courage"), !.value = Some(20) ]),
                 None >>),
      Profile("potion_void", Some(-1),
              << Some([ NoCond EXCEPT !.dim = Some("calm"), !.max = Some(0) ]) >>) }

HarnessDims == { "calm", "courage" }
HarnessValues == { -4, 0, 12 }

\* sequences over S without repetition, of length at most n
RECURSIVE InjectiveSeqs(_, _)
InjectiveSeqs(S, n) ==
    IF n = 0 THEN { << >> }
    ELSE LET shorter == InjectiveSeqs(S, n - 1) IN
         shorter \cup { Append(q, x) : q \in { r \in shorter : Len(r) = n - 1 }, x \in S }

HasDistinctIds(q) == \A i, j \in DOMAIN q : q[i].id = q[j].id => i = j

ResultLists == { q \in InjectiveSeqs(ResultPool, MaxResults) : HasDistinctIds(q) }

ScoreMaps ==
    { q \in InjectiveSeqs([ id : HarnessDims, value : HarnessValues ], Cardinality(HarnessDims)) :
        HasDistinctIds(q) }

CodecIdle == call = None /\ returned = None

SessionIdle ==
    /\ files = None /\ data = None /\ index = 0 /\ scores = << >>
    /\ answers = << >> /\ finished = FALSE /\ lastResult = None
    /\ answeringLocked = FALSE /\ transitionTimeout = FALSE /\ url = NoUrl
    /\ legacy = None /\ timers = << >>

(***************************************************************************)
(* SpecResolve: computeResult applied to any results list and score map    *)
(***************************************************************************)
InitResolve ==
    /\ results \in ResultLists
    /\ scoreMap \in ScoreMaps
    /\ outcome = None
    /\ CodecIdle
    /\ SessionIdle

\* outcome holds the optional returned by computeResult: an empty inner
\* optional would be a return of undefined
Resolve ==
    /\ outcome = None
    /\ outcome' = Some(computeResult(results, scoreMap))
    /\ UNCHANGED << results, scoreMap >>
    /\ UNCHANGED << codecVars, sessionVars >>

NextResolve == Resolve

SpecResolve == InitResolve /\ [][NextResolve]_vars


(***************************************************************************)
(* Properties of the resolver (checked under SpecResolve)                  *)
(***************************************************************************)
Returned == outcome[1][1]

\* positions of the results whose conditions list is empty or all of whose
\* conditions evaluate true on the score map
EligibleSet ==
    { i \in DOMAIN results :
        \/ results[i].conditions = << >>
        \/ \A k \in DOMAIN results[i].conditions :
              meetsCondition(results[i].conditions[k], scoreMap) }

TopEligibleSet ==
    { i \in EligibleSet :
        \A j \in EligibleSet : PriorityOf(results[i]) >= PriorityOf(results[j]) }

\* C1: computeResult returns exactly one defined record for every results
\* list and score map (never undefined); on an empty results list the
\* record is built from the synthetic placeholder (id "fallback", title
\* "Your Potion", empty summary).
C1_AlwaysOneOutcome ==
    outcome # None =>
        /\ Len(outcome[1]) = 1
        /\ results = << >> =>
              /\ Returned.id = "fallback"
              /\ Returned.title = "Your Potion"
              /\ Returned.summary = Some("")

C1_Witness ==
    /\ outcome # None /\ results = << >> /\ scoreMap # << >>
    /\ outcome[1] # None /\ Returned.extra = Some("Dominant: calm, Secondary: courage")

\* C2: when some result is eligible, the returned result's priority (absent
\* counted as 0) is at least the priority of every eligible result.
C2_ReturnedHasMaxPriority ==
    (outcome # None /\ EligibleSet # {}) =>
        \A i \in EligibleSet : PriorityOf(Returned) >= PriorityOf(results[i])

\* a later eligible result of higher priority has replaced an earlier one
C2_Witness ==
    /\ outcome # None
    /\ \E i, j \in EligibleSet :
          /\ i < j /\ PriorityOf(results[i]) < PriorityOf(results[j])
          /\ Returned.id = results[j].id
    /\ \E i \in EligibleSet : results[i].priority = None

\* C3: among the eligible results of maximal priority the resolver returns
\* the one with the smallest position in the full results list, however
\* many ineligible results precede the tied ones.
C3_EarliestOfTiedWins ==
    (outcome # None /\ EligibleSet # {}) =>
        Returned.id = results[CHOOSE i \in TopEligibleSet :
                                 \A j \in TopEligibleSet : i <= j].id

\* C4: a result is eligible exactly when its conditions list is empty or
\* every condition holds; computeResult returns an eligible result when one
\* exists and takes the fallback path (extra is a Dominant / signal
\* annotation) only when no result is eligible.
C4_EligibleElseFallback ==
    outcome # None =>
        /\ EligibleSet # {} =>
              /\ \E i \in EligibleSet : Returned.id = results[i].id
              /\ Returned.extra = Some("")
        /\ EligibleSet = {} =>
              /\ Returned.extra # Some("")
              /\ \A i \in DOMAIN results : ~resultMatchesConditions(results[i], scoreMap)

\* an eligible result is returned although ineligible ones of higher
\* priority precede it; and, in another run, the fallback path is taken
C4_Witness ==
    /\ outcome # None
    /\ Len(results) = 3
    /\ EligibleSet = { 3 }
    /\ PriorityOf(results[1]) > PriorityOf(results[3])
    /\ Returned.id = results[3].id

C4_WitnessFallback ==
    /\ outcome # None /\ results # << >> /\ EligibleSet = {}
    /\ Returned.extra = Some("Dominant: courage, Secondary: calm")

(***************************************************************************)
(* URLs the page is opened with, as UTF-16 code units                      *)
(***************************************************************************)
\* the URL the app writes after answering 0, 0 with scores calm 20, courage
\* -3
\*   state: base64url of {"v":1,"resultId":"potion_top_calm","scores":{"calm":20,"courage":-3},"answers":[0,0]}
\*   result: potion_top_calm
\*   scores: %7B%22calm%22%3A10%2C%22courage%22%3A-3%7D
UrlWritten ==
    [ state |-> Some(<< 101, 121, 74, 50, 73, 106, 111, 120, 76, 67, 74, 121, 90, 88,
              78, 49, 98, 72, 82, 74, 90, 67, 73, 54, 73, 110, 66, 118, 100,
              71, 108, 118, 98, 108, 57, 48, 98, 51, 66, 102, 89, 50, 70, 115,
              98, 83, 73, 115, 73, 110, 78, 106, 98, 51, 74, 108, 99, 121, 73,
              54, 101, 121, 74, 106, 89, 87, 120, 116, 73, 106, 111, 121, 77,
              67, 119, 105, 89, 50, 57, 49, 99, 109, 70, 110, 90, 83, 73, 54,
              76, 84, 78, 57, 76, 67, 74, 104, 98, 110, 78, 51, 90, 88, 74,
              122, 73, 106, 112, 98, 77, 67, 119, 119, 88, 88, 48 >>),
      result |-> Some(<< 112, 111, 116, 105, 111, 110, 95, 116, 111, 112, 95, 99, 97,
              108, 109 >>),
      scores |-> Some(<< 37, 55, 66, 37, 50, 50, 99, 97, 108, 109, 37, 50, 50, 37, 51,
              65, 49, 48, 37, 50, 67, 37, 50, 50, 99, 111, 117, 114, 97, 103,
              101, 37, 50, 50, 37, 51, 65, 45, 51, 37, 55, 68 >>) ]

\* a state written by hand: scores out of range, as text and for an unknown
\* dimension; answers of every kind
\*   state: base64url of {"v":1,"resultId":"potion_calm","scores":{"calm":55,"courage":"-3.5","zeal":1},"answers":[1,null,"2",-1,2.5,true]}
UrlHandMade ==
    [ state |-> Some(<< 101, 121, 74, 50, 73, 106, 111, 120, 76, 67, 74, 121, 90, 88,
              78, 49, 98, 72, 82, 74, 90, 67, 73, 54, 73, 110, 66, 118, 100,
              71, 108, 118, 98, 108, 57, 106, 89, 87, 120, 116, 73, 105, 119,
              105, 99, 50, 78, 118, 99, 109, 86, 122, 73, 106, 112, 55, 73,
              109, 78, 104, 98, 71, 48, 105, 79, 106, 85, 49, 76, 67, 74, 106,
              98, 51, 86, 121, 89, 87, 100, 108, 73, 106, 111, 105, 76, 84,
              77, 117, 78, 83, 73, 115, 73, 110, 112, 108, 89, 87, 119, 105,
              79, 106, 70, 57, 76, 67, 74, 104, 98, 110, 78, 51, 90, 88, 74,
              122, 73, 106, 112, 98, 77, 83, 120, 117, 100, 87, 120, 115, 76,
              67, 73, 121, 73, 105, 119, 116, 77, 83, 119, 121, 76, 106, 85,
              115, 100, 72, 74, 49, 90, 86, 49, 57 >>),
      result |-> None,
      scores |-> None ]

\* a state that is not base64url, with the legacy pair
\*   state: not-base64!!
\*   result: potion_top_courage
\*   scores: %7B%22calm%22%3A15%2C%22courage%22%3A%22-3.5%22%7D
UrlCorruptState ==
    [ state |-> Some(<< 110, 111, 116, 45, 98, 97, 115, 101, 54, 52, 33, 33 >>),
      result |-> Some(<< 112, 111, 116, 105, 111, 110, 95, 116, 111, 112, 95, 99, 111,
              117, 114, 97, 103, 101 >>),
      scores |-> Some(<< 37, 55, 66, 37, 50, 50, 99, 97, 108, 109, 37, 50, 50, 37, 51,
              65, 49, 53, 37, 50, 67, 37, 50, 50, 99, 111, 117, 114, 97, 103,
              101, 37, 50, 50, 37, 51, 65, 37, 50, 50, 45, 51, 46, 53, 37, 50,
              50, 37, 55, 68 >>) ]

\* a state of version 2, with a legacy result and no scores
\*   state: base64url of {"v":2,"resultId":"potion_top_calm","scores":{"calm":3},"answers":[1]}
\*   result: potion_calm
UrlVersionTwo ==
    [ state |-> Some(<< 101, 121, 74, 50, 73, 106, 111, 121, 76, 67, 74, 121, 90, 88,
              78, 49, 98, 72, 82, 74, 90, 67, 73, 54, 73, 110, 66, 118, 100,
              71, 108, 118, 98, 108, 57, 48, 98, 51, 66, 102, 89, 50, 70, 115,
              98, 83, 73, 115, 73, 110, 78, 106, 98, 51, 74, 108, 99, 121, 73,
              54, 101, 121, 74, 106, 89, 87, 120, 116, 73, 106, 111, 122, 102,
              83, 119, 105, 89, 87, 53, 122, 100, 50, 86, 121, 99, 121, 73,
              54, 87, 122, 70, 100, 102, 81 >>),
      result |-> Some(<< 112, 111, 116, 105, 111, 110, 95, 99, 97, 108, 109 >>),
      scores |-> None ]

\* a state naming an unknown result, with a valid legacy pair
\*   state: base64url of {"v":1,"resultId":"potion_gone","scores":{"calm":3},"answers":[1]}
\*   result: potion_top_calm
\*   scores: %7B%22calm%22%3A-7%7D
UrlUnknownInState ==
    [ state |-> Some(<< 101, 121, 74, 50, 73, 106, 111, 120, 76, 67, 74, 121, 90, 88,
              78, 49, 98, 72, 82, 74, 90, 67, 73, 54, 73, 110, 66, 118, 100,
              71, 108, 118, 98, 108, 57, 110, 98, 50, 53, 108, 73, 105, 119,
              105, 99, 50, 78, 118, 99, 109, 86, 122, 73, 106, 112, 55, 73,
              109, 78, 104, 98, 71, 48, 105, 79, 106, 78, 57, 76, 67, 74, 104,
              98, 110, 78, 51, 90, 88, 74, 122, 73, 106, 112, 98, 77, 86, 49,
              57 >>),
      result |-> Some(<< 112, 111, 116, 105, 111, 110, 95, 116, 111, 112, 95, 99, 97,
              108, 109 >>),
      scores |-> Some(<< 37, 55, 66, 37, 50, 50, 99, 97, 108, 109, 37, 50, 50, 37, 51,
              65, 45, 55, 37, 55, 68 >>) ]

\* a state and a legacy pair naming different results with different scores
\*   state: base64url of {"v":1,"resultId":"potion_top_courage","scores":{"calm":-20,"courage":18},"answers":[1,0]}
\*   result: potion_calm
\*   scores: %7B%22calm%22%3A4%2C%22courage%22%3A4%7D
UrlBothValid ==
    [ state |-> Some(<< 101, 121, 74, 50, 73, 106, 111, 120, 76, 67, 74, 121, 90, 88,
              78, 49, 98, 72, 82, 74, 90, 67, 73, 54, 73, 110, 66, 118, 100,
              71, 108, 118, 98, 108, 57, 48, 98, 51, 66, 102, 89, 50, 57, 49,
              99, 109, 70, 110, 90, 83, 73, 115, 73, 110, 78, 106, 98, 51, 74,
              108, 99, 121, 73, 54, 101, 121, 74, 106, 89, 87, 120, 116, 73,
              106, 111, 116, 77, 106, 65, 115, 73, 109, 78, 118, 100, 88, 74,
              104, 90, 50, 85, 105, 79, 106, 69, 52, 102, 83, 119, 105, 89,
              87, 53, 122, 100, 50, 86, 121, 99, 121, 73, 54, 87, 122, 69,
              115, 77, 70, 49, 57 >>),
      result |-> Some(<< 112, 111, 116, 105, 111, 110, 95, 99, 97, 108, 109 >>),
      scores |-> Some(<< 37, 55, 66, 37, 50, 50, 99, 97, 108, 109, 37, 50, 50, 37, 51,
              65, 52, 37, 50, 67, 37, 50, 50, 99, 111, 117, 114, 97, 103, 101,
              37, 50, 50, 37, 51, 65, 52, 37, 55, 68 >>) ]

\* a legacy result the configuration does not have
\*   result: potion_gone
\*   scores: %7B%22calm%22%3A4%7D
UrlUnknownResult ==
    [ state |-> None,
      result |-> Some(<< 112, 111, 116, 105, 111, 110, 95, 103, 111, 110, 101 >>),
      scores |-> Some(<< 37, 55, 66, 37, 50, 50, 99, 97, 108, 109, 37, 50, 50, 37, 51,
              65, 52, 37, 55, 68 >>) ]

\* legacy scores without a result
\*   scores: %7B%22calm%22%3A4%7D
UrlScoresOnly ==
    [ state |-> None,
      result |-> None,
      scores |-> Some(<< 37, 55, 66, 37, 50, 50, 99, 97, 108, 109, 37, 50, 50, 37, 51,
              65, 52, 37, 55, 68 >>) ]

\* a legacy result with scores that are no JSON
\*   result: potion_top_courage
\*   scores: %7Bbad
UrlMalformedScores ==
    [ state |-> None,
      result |-> Some(<< 112, 111, 116, 105, 111, 110, 95, 116, 111, 112, 95, 99, 111,
              117, 114, 97, 103, 101 >>),
      scores |-> Some(<< 37, 55, 66, 98, 97, 100 >>) ]

\* a state whose resultId is the empty string, with an empty result
\*   state: base64url of {"v":1,"resultId":"","scores":{"calm":3}}
\*   result: (empty)
UrlEmptyResultId ==
    [ state |-> Some(<< 101, 121, 74, 50, 73, 106, 111, 120, 76, 67, 74, 121, 90, 88,
              78, 49, 98, 72, 82, 74, 90, 67, 73, 54, 73, 105, 73, 115, 73,
              110, 78, 106, 98, 51, 74, 108, 99, 121, 73, 54, 101, 121, 74,
              106, 89, 87, 120, 116, 73, 106, 111, 122, 102, 88, 48 >>),
      result |-> Some(<<  >>),
      scores |-> None ]

\* a state that is base64url of text that is no JSON
\*   state: base64url of {bad
UrlBrokenJson ==
    [ state |-> Some(<< 101, 50, 74, 104, 90, 65 >>),
      result |-> None,
      scores |-> None ]

\* a state naming potion_ + U+96EA through a JSON escape, with no answers
\* array
\*   state: base64url of {"v":1,"resultId":"potion_\u96ea","scores":{"courage":"12"},"answers":"01"}
UrlEscapedId ==
    [ state |-> Some(<< 101, 121, 74, 50, 73, 106, 111, 120, 76, 67, 74, 121, 90, 88,
              78, 49, 98, 72, 82, 74, 90, 67, 73, 54, 73, 110, 66, 118, 100,
              71, 108, 118, 98, 108, 57, 99, 100, 84, 107, 50, 90, 87, 69,
              105, 76, 67, 74, 122, 89, 50, 57, 121, 90, 88, 77, 105, 79, 110,
              115, 105, 89, 50, 57, 49, 99, 109, 70, 110, 90, 83, 73, 54, 73,
              106, 69, 121, 73, 110, 48, 115, 73, 109, 70, 117, 99, 51, 100,
              108, 99, 110, 77, 105, 79, 105, 73, 119, 77, 83, 74, 57 >>),
      result |-> None,
      scores |-> None ]

UrlPool ==
    { NoUrl, UrlWritten, UrlHandMade, UrlCorruptState, UrlVersionTwo,
      UrlUnknownInState, UrlBothValid, UrlUnknownResult, UrlScoresOnly,
      UrlMalformedScores, UrlEmptyResultId, UrlBrokenJson, UrlEscapedId }

(***************************************************************************)
(* Spec: the session.  The configuration the fetch delivers and the URL    *)
(* the page is opened with are chosen in Init; afterwards the user answers,*)
(* the transition timer fires, the user resets or opens the page again.    *)
(***************************************************************************)
MaxQuestions == 2    \* longest question list of a configuration

SessionDimensions == << "calm", "courage" >>

Weight(id, delta) == [ id |-> id, delta |-> Some(delta) ]

\* questions of two options; weights large enough to pass 20 in two answers,
\* for a dimension the configuration does not list, and one that is no number
QuestionPool ==
    { [ options |-> << [ weights |-> << Weight("calm", 15), Weight("courage", -3) >> ],
                       [ weights |-> << Weight("courage", 12), Weight("zeal", 2) >> ] >> ],
      [ options |-> << [ weights |-> << Weight("calm", 15) >> ],
                       [ weights |-> << Weight("calm", -15),
                                        [ id |-> "courage", delta |-> None ] >> ] >> ],
      [ options |-> << [ weights |-> << Weight("courage", -12), Weight("calm", -15) >> ],
                       [ weights |-> << >> ] >> ] }

RECURSIVE SeqsUpTo(_, _)
SeqsUpTo(S, n) ==
    IF n = 0 THEN { << >> }
    ELSE LET shorter == SeqsUpTo(S, n - 1) IN
         shorter \cup { Append(q, x) : q \in { r \in shorter : Len(r) = n - 1 }, x \in S }

\* results lists of a configuration: the usual one, an empty one, one whose
\* winner has an id outside Latin-1, one where nothing is eligible
SessionResults ==
    { << Profile("potion_calm", None, << >>),
         Profile("potion_top_calm", Some(5),
                 << Some([ Cond("min") EXCEPT !.dim = Some("calm"), !.value = Some(4) ]) >>),
         Profile("potion_top_courage", Some(5),
                 << Some([ Cond("top_is") EXCEPT !.dim = Some("courage") ]) >>) >>,
      << >>,
      << Profile("potion_calm", None, << >>),
         Profile("potion_u96EA", Some(7),
                 << Some([ Cond("min") EXCEPT !.dim = Some("courage"), !.value = Some(9) ]) >>) >>,
      << Profile("potion_never", Some(9), << Some(Cond("diff_greater")) >>),
         Profile("potion_top_courage", Some(5),
                 << Some([ Cond("min") EXCEPT !.dim = Some("courage"), !.value = Some(20) ]) >>) >> }

Configs ==
    [ dimensions : { SessionDimensions },
      questions : SeqsUpTo(QuestionPool, MaxQuestions),
      results : SessionResults ]

Init ==
    /\ results = << >> /\ scoreMap = << >> /\ outcome = None
    /\ CodecIdle
    /\ files \in { Some(c) : c \in Configs }
    /\ url \in UrlPool
    /\ data = None /\ index = 0 /\ scores = << >> /\ answers = << >>
    /\ finished = FALSE /\ lastResult = None
    /\ answeringLocked = FALSE /\ transitionTimeout = FALSE
    /\ legacy = None /\ timers = << >>

Next ==
    \/ InitEffect /\ UNCHANGED legacyVars
    \/ \E k \in 1..2 : HandleAnswer(k) /\ UNCHANGED legacyVars
    \/ TransitionTimer /\ UNCHANGED legacyVars
    \/ HandleReset /\ UNCHANGED legacyVars
    \/ Reopen /\ UNCHANGED legacyVars

Spec == Init /\ [][Next]_vars

(***************************************************************************)
(* SpecCodec: the codec functions of lib/quiz.ts called on inputs of every *)
(* kind.  call is chosen in Init; the one action that fits it makes the    *)
(* call and stores what came back.                                         *)
(***************************************************************************)
Threw == [ threw |-> TRUE ]
Gave(value) == [ threw |-> FALSE, value |-> value ]

\* texts handed to decodeShareState, each with what it is
RawStates ==
    { \* null: the parameter is not in the URL
      [ kind |-> "absent",
        raw |-> None ],
      \* the empty string
      [ kind |-> "empty",
        raw |-> Some(<< >>) ],
      \* not-base64!!
      [ kind |-> "notBase64",
        raw |-> Some(<< 110, 111, 116, 45, 98, 97, 115, 101, 54, 52, 33, 33 >>) ],
      \* eyJ2IjoxL: nine characters, one more than a whole number of bytes
      [ kind |-> "notBase64",
        raw |-> Some(<< 101, 121, 74, 50, 73, 106, 111, 120, 76 >>) ],
      \* base64url of {bad
      [ kind |-> "notJson",
        raw |-> Some(<< 101, 50, 74, 104, 90, 65 >>) ],
      \* base64url of {"v":1,"resultId":"potion_calm" without the closing brace
      [ kind |-> "notJson",
        raw |-> Some(<< 101, 121, 74, 50, 73, 106, 111, 120, 76, 67, 74, 121,
                      90, 88, 78, 49, 98, 72, 82, 74, 90, 67, 73, 54, 73, 110,
                      66, 118, 100, 71, 108, 118, 98, 108, 57, 106, 89, 87,
                      120, 116, 73, 103 >>) ],
      \* base64url of null
      [ kind |-> "wrongVersion",
        raw |-> Some(<< 98, 110, 86, 115, 98, 65 >>) ],
      \* base64url of [1]
      [ kind |-> "wrongVersion",
        raw |-> Some(<< 87, 122, 70, 100 >>) ],
      \* base64url of {"v":2,"resultId":"potion_calm"}
      [ kind |-> "wrongVersion",
        raw |-> Some(<< 101, 121, 74, 50, 73, 106, 111, 121, 76, 67, 74, 121,
                      90, 88, 78, 49, 98, 72, 82, 74, 90, 67, 73, 54, 73, 110,
                      66, 118, 100, 71, 108, 118, 98, 108, 57, 106, 89, 87,
                      120, 116, 73, 110, 48 >>) ],
      \* base64url of {"v":"1","resultId":"potion_calm"}
      [ kind |-> "wrongVersion",
        raw |-> Some(<< 101, 121, 74, 50, 73, 106, 111, 105, 77, 83, 73, 115,
                      73, 110, 74, 108, 99, 51, 86, 115, 100, 69, 108, 107,
                      73, 106, 111, 105, 99, 71, 57, 48, 97, 87, 57, 117, 88,
                      50, 78, 104, 98, 71, 48, 105, 102, 81 >>) ],
      \* base64url of {"resultId":"potion_calm"}
      [ kind |-> "wrongVersion",
        raw |-> Some(<< 101, 121, 74, 121, 90, 88, 78, 49, 98, 72, 82, 74, 90,
                      67, 73, 54, 73, 110, 66, 118, 100, 71, 108, 118, 98,
                      108, 57, 106, 89, 87, 120, 116, 73, 110, 48 >>) ],
      \* base64url of {"v":1}
      [ kind |-> "noResultId",
        raw |-> Some(<< 101, 121, 74, 50, 73, 106, 111, 120, 102, 81 >>) ],
      \* base64url of {"v":1,"resultId":5}
      [ kind |-> "noResultId",
        raw |-> Some(<< 101, 121, 74, 50, 73, 106, 111, 120, 76, 67, 74, 121,
                      90, 88, 78, 49, 98, 72, 82, 74, 90, 67, 73, 54, 78, 88,
                      48 >>) ],
      \* base64url of {"v":1,"resultId":null,"scores":{}}
      [ kind |-> "noResultId",
        raw |-> Some(<< 101, 121, 74, 50, 73, 106, 111, 120, 76, 67, 74, 121,
                      90, 88, 78, 49, 98, 72, 82, 74, 90, 67, 73, 54, 98, 110,
                      86, 115, 98, 67, 119, 105, 99, 50, 78, 118, 99, 109, 86,
                      122, 73, 106, 112, 55, 102, 88, 48 >>) ],
      \* base64url of {"v":1,"resultId":"potion_calm","scores":{"calm":20,"courage":-3},"answers":[0,1]}
      [ kind |-> "valid",
        raw |-> Some(<< 101, 121, 74, 50, 73, 106, 111, 120, 76, 67, 74, 121,
                      90, 88, 78, 49, 98, 72, 82, 74, 90, 67, 73, 54, 73, 110,
                      66, 118, 100, 71, 108, 118, 98, 108, 57, 106, 89, 87,
                      120, 116, 73, 105, 119, 105, 99, 50, 78, 118, 99, 109,
                      86, 122, 73, 106, 112, 55, 73, 109, 78, 104, 98, 71, 48,
                      105, 79, 106, 73, 119, 76, 67, 74, 106, 98, 51, 86, 121,
                      89, 87, 100, 108, 73, 106, 111, 116, 77, 51, 48, 115,
                      73, 109, 70, 117, 99, 51, 100, 108, 99, 110, 77, 105,
                      79, 108, 115, 119, 76, 68, 70, 100, 102, 81 >>) ],
      \* base64url of {"v":1.0,"resultId":""}
      [ kind |-> "valid",
        raw |-> Some(<< 101, 121, 74, 50, 73, 106, 111, 120, 76, 106, 65, 115,
                      73, 110, 74, 108, 99, 51, 86, 115, 100, 69, 108, 107,
                      73, 106, 111, 105, 73, 110, 48 >>) ],
      \* base64, padded and with + and /, of  {"resultId":"a+b/c?>" , "v":1}
      [ kind |-> "valid",
        raw |-> Some(<< 73, 72, 115, 105, 99, 109, 86, 122, 100, 87, 120, 48,
                      83, 87, 81, 105, 79, 105, 74, 104, 75, 50, 73, 118, 89,
                      122, 56, 43, 73, 105, 65, 115, 73, 67, 74, 50, 73, 106,
                      111, 120, 102, 81, 61, 61 >>) ],
      \* base64url of {"v":1,"resultId":"potion_\u96ea"}
      [ kind |-> "valid",
        raw |-> Some(<< 101, 121, 74, 50, 73, 106, 111, 120, 76, 67, 74, 121,
                      90, 88, 78, 49, 98, 72, 82, 74, 90, 67, 73, 54, 73, 110,
                      66, 118, 100, 71, 108, 118, 98, 108, 57, 99, 100, 84,
                      107, 50, 90, 87, 69, 105, 102, 81 >>) ] }

\* texts handed to decodeLegacyScoresFromUrl, each with what it is
RawScores ==
    { \* null
      [ kind |-> "absent",
        raw |-> None ],
      \* the empty string
      [ kind |-> "empty",
        raw |-> Some(<< >>) ],
      \* %E0%A4%A: a malformed escape
      [ kind |-> "notUri",
        raw |-> Some(<< 37, 69, 48, 37, 65, 52, 37, 65 >>) ],
      \* %7Bbad
      [ kind |-> "notJson",
        raw |-> Some(<< 37, 55, 66, 98, 97, 100 >>) ],
      \* %7B%22calm%22%3A15%2C%22courage%22%3A%22-3.5%22%7D
      [ kind |-> "valid",
        raw |-> Some(<< 37, 55, 66, 37, 50, 50, 99, 97, 108, 109, 37, 50, 50,
                      37, 51, 65, 49, 53, 37, 50, 67, 37, 50, 50, 99, 111,
                      117, 114, 97, 103, 101, 37, 50, 50, 37, 51, 65, 37, 50,
                      50, 45, 51, 46, 53, 37, 50, 50, 37, 55, 68 >>) ],
      \* %7B%22courage%22%3A-10.5%2C%22zeal%22%3A4%7D
      [ kind |-> "valid",
        raw |-> Some(<< 37, 55, 66, 37, 50, 50, 99, 111, 117, 114, 97, 103, 101,
                      37, 50, 50, 37, 51, 65, 45, 49, 48, 46, 53, 37, 50, 67,
                      37, 50, 50, 122, 101, 97, 108, 37, 50, 50, 37, 51, 65,
                      52, 37, 55, 68 >>) ],
      \* {"calm":1e3,"courage":[-7]} left unescaped
      [ kind |-> "valid",
        raw |-> Some(<< 123, 34, 99, 97, 108, 109, 34, 58, 49, 101, 51, 44, 34,
                      99, 111, 117, 114, 97, 103, 101, 34, 58, 91, 45, 55, 93,
                      125 >>) ],
      \* null
      [ kind |-> "valid",
        raw |-> Some(<< 110, 117, 108, 108 >>) ],
      \* %5B15%2C3%5D, the array [15,3]
      [ kind |-> "valid",
        raw |-> Some(<< 37, 53, 66, 49, 53, 37, 50, 67, 51, 37, 53, 68 >>) ] }

T_7 == << 55 >>
T_abc == << 97, 98, 99 >>
T_Infinity == << 73, 110, 102, 105, 110, 105, 116, 121 >>
T_blank == << 32 >>

\* SharedStateV1 payloads: ids inside and outside Latin-1, scores at and
\* inside the bounds, answers dense and with holes
PayloadScores == { -20, 0, 7, 20 }
Payloads ==
    [ resultId : { "potion_calm", "potion_top_courage", "potion_u96EA" },
      scores : { << [ id |-> "calm", value |-> a ], [ id |-> "courage", value |-> b ] >> :
                   a, b \in PayloadScores },
      answers : { << >>, << 0 >>, << 1, 0 >>, << 0, Hole, 1 >>, << Hole, 1 >> } ]

\* values of a score entry as they can arrive, each with the number that
\* Number(value) is (NonFinite for NaN and the infinities)
ScoreValues ==
    { [ jv |-> JNum(3), num |-> Finite(3, 1) ],
      [ jv |-> JNum(55), num |-> Finite(55, 1) ],
      [ jv |-> JNum(-55), num |-> Finite(-55, 1) ],
      [ jv |-> JFrac(5, 2), num |-> Finite(5, 2) ],
      [ jv |-> JFrac(-21, 2), num |-> Finite(-21, 2) ],
      [ jv |-> JStr(T_7), num |-> Finite(7, 1) ],
      [ jv |-> JStr(T_blank), num |-> Finite(0, 1) ],
      [ jv |-> JStr(T_abc), num |-> NonFinite ],
      [ jv |-> JStr(T_Infinity), num |-> NonFinite ],
      [ jv |-> JNull, num |-> Finite(0, 1) ],
      [ jv |-> JBool(TRUE), num |-> Finite(1, 1) ],
      [ jv |-> JArr(<< JNum(-12) >>), num |-> Finite(-12, 1) ],
      [ jv |-> JObj(<< >>), num |-> NonFinite ] }

\* an entry or none: the key may be absent from the input
Entries(id) == { << >> } \cup { << [ id |-> id, jv |-> v.jv, num |-> v.num ] >> : v \in ScoreValues }

\* input maps: calm and courage absent or holding any value, zeal (not a
\* dimension) absent or present
NormalizeInputs ==
    { a \o b \o c : a \in Entries("calm"), b \in Entries("courage"),
                    c \in { << >>, << [ id |-> "zeal", jv |-> JNum(9), num |-> Finite(9, 1) ] >> } }

DimensionLists == { << >>, << "calm" >>, << "calm", "courage" >>, << "courage", "calm" >> }

\* the (min, max) pairs of the call sites
Ranges == { << -10, 10 >>, << -20, 20 >> }

InputJV(entries) == JObj([ i \in DOMAIN entries |-> [ k |-> TextOf[entries[i].id], v |-> entries[i].jv ] ])

LegacyMaps ==
    { << [ id |-> "calm", value |-> a ], [ id |-> "courage", value |-> b ] >> :
        a, b \in { -20, -10, 0, 9, 11 } }
    \cup { << >>, << [ id |-> "zeal", value |-> 20 ], [ id |-> "courage", value |-> -20 ] >> }

CodecCalls ==
         { [ fn |-> "roundTrip", payload |-> p ] : p \in Payloads }
    \cup { [ fn |-> "decodeShareState", raw |-> r.raw, kind |-> r.kind ] : r \in RawStates }
    \cup { [ fn |-> "normalize", input |-> i, dimensions |-> d, min |-> r[1], max |-> r[2] ] :
             i \in NormalizeInputs, d \in { <<"calm", "courage">> }, r \in Ranges }
    \cup { [ fn |-> "normalize", input |-> i, dimensions |-> d, min |-> r[1], max |-> r[2] ] :
             i \in { n \in NormalizeInputs : Len(n) <= 1 }, d \in DimensionLists, r \in Ranges }
    \cup { [ fn |-> "normalizeNull", dimensions |-> d, min |-> r[1], max |-> r[2] ] :
             d \in DimensionLists, r \in Ranges }
    \cup { [ fn |-> "legacyRoundTrip", map |-> m, dimensions |-> d ] :
             m \in LegacyMaps, d \in DimensionLists }
    \cup { [ fn |-> "decodeLegacy", raw |-> r.raw, kind |-> r.kind, dimensions |-> d ] :
             r \in RawScores, d \in DimensionLists }

InitCodec ==
    /\ results = << >> /\ scoreMap = << >> /\ outcome = None
    /\ call \in { Some(c) : c \in CodecCalls }
    /\ returned = None
    /\ SessionIdle

Calling(fn) == call # None /\ call[1].fn = fn /\ returned = None

\* decodeShareState applied to what encodeShareState gave, unless it threw
DecodedAgain(encoded) == IF encoded = None THEN Threw ELSE Gave(decodeShareState(encoded))

RoundTrip ==
    /\ Calling("roundTrip")
    /\ returned' = Some(DecodedAgain(encodeShareState(
                       SharedPayload(call[1].payload.resultId, call[1].payload.scores,
                                     call[1].payload.answers))))
    /\ UNCHANGED << call, resolverVars, sessionVars >>

DecodeShareState ==
    /\ Calling("decodeShareState")
    /\ returned' = Some(Gave(decodeShareState(call[1].raw)))
    /\ UNCHANGED << call, resolverVars, sessionVars >>

Normalize ==
    /\ Calling("normalize")
    /\ returned' = Some(Gave(normalizeScoresForDimensions(
                       Some(InputJV(call[1].input)), call[1].dimensions,
                       call[1].min, call[1].max)))
    /\ UNCHANGED << call, resolverVars, sessionVars >>

NormalizeNull ==
    /\ Calling("normalizeNull")
    /\ returned' = Some(Gave(normalizeScoresForDimensions(
                       None, call[1].dimensions, call[1].min, call[1].max)))
    /\ UNCHANGED << call, resolverVars, sessionVars >>

\* decodeLegacyScoresFromUrl applied to what encodeLegacyScoresForUrl gave
LegacyDecodedAgain(encoded, dimensions) ==
    IF encoded = None THEN Threw ELSE Gave(decodeLegacyScoresFromUrl(encoded, dimensions))

LegacyRoundTrip ==
    /\ Calling("legacyRoundTrip")
    /\ returned' = Some(LegacyDecodedAgain(
                       encodeLegacyScoresForUrl(call[1].map, call[1].dimensions),
                       call[1].dimensions))
    /\ UNCHANGED << call, resolverVars, sessionVars >>

DecodeLegacy ==
    /\ Calling("decodeLegacy")
    /\ returned' = Some(Gave(decodeLegacyScoresFromUrl(call[1].raw, call[1].dimensions)))
    /\ UNCHANGED << call, resolverVars, sessionVars >>

NextCodec ==
    \/ RoundTrip
    \/ DecodeShareState
    \/ Normalize
    \/ NormalizeNull
    \/ LegacyRoundTrip
    \/ DecodeLegacy

SpecCodec == InitCodec /\ [][NextCodec]_vars

(***************************************************************************)
(* Properties of the codec (checked under SpecCodec)                       *)
(***************************************************************************)
RoundTripDone == call # None /\ call[1].fn = "roundTrip" /\ returned # None

PayloadJV(p) == SharedPayload(p.resultId, p.scores, p.answers)

\* C5: for every valid versioned payload (v 1, a string resultId, integer
\* scores within [-20, 20], answers with or without holes) decoding the
\* encoded payload gives the payload back.
C5_RoundTripIsIdentity ==
    RoundTripDone => returned[1] = Gave(Some(PayloadJV(call[1].payload)))

(***************************************************************************)
(* Properties of the session (checked under Spec)                          *)
(***************************************************************************)
\* The session was finalized by the last answer: handleAnswer locked the
\* options and finalizeQuiz set finished (a restored session is finished
\* with the options unlocked).
Finalized == data # None /\ finished /\ answeringLocked

\* the vector over the known dimensions that holds map's values
OverDimensions(map, dimensions) ==
    [ i \in DOMAIN dimensions |-> [ id |-> dimensions[i], value |-> ScoreOf(map, dimensions[i]) ] ]

\* C6: after a session finalizes with result R, scores S and answers A on a
\* non-empty results list, loading the URL written at finalization restores
\* result R, S over the known dimensions (within [-20, 20], not the legacy
\* [-10, 10]) and A.
C6_WrittenUrlRestores ==
    (Finalized /\ data[1].results # << >>) =>
        /\ restoreFromUrl(data[1], url) # None
        /\ restoreFromUrl(data[1], url)[1].result.id = lastResult[1].id
        /\ restoreFromUrl(data[1], url)[1].scores = OverDimensions(scores, data[1].dimensions)
        /\ restoreFromUrl(data[1], url)[1].answers = answers

InBounds(map) == \A i \in DOMAIN map : map[i].value \in -20..20

\* C7: in every reachable session state every component of the score vector
\* lies in [-20, 20].
C7_ScoresWithinBounds == InBounds(scores)

\* two answers of +15 each were given and calm stands at 20
C7_Witness ==
    /\ data # None /\ Len(answers) = 2 /\ answeringLocked
    /\ ScoreOf(scores, "calm") = 20

(***************************************************************************)
(* Further properties of the codec (checked under SpecCodec)               *)
(***************************************************************************)
NormalizeDone == call # None /\ call[1].fn = "normalize" /\ returned # None

\* the entry of the input for a key, as an optional
EntryFor(entries, id) ==
    IF \E i \in DOMAIN entries : entries[i].id = id
    THEN Some(entries[CHOOSE i \in DOMAIN entries : entries[i].id = id])
    ELSE None

\* the keys are exactly the dimension ids, in their order
KeysAre(map, dimensions) == [ i \in DOMAIN map |-> map[i].id ] = dimensions

WithinRange(map, min, max) == \A i \in DOMAIN map : map[i].value \in min..max

\* a map some call gave back, if the call gave one
GaveMap == returned # None /\ ~returned[1].threw /\ returned[1].value # None

\* C8: normalizeScoresForDimensions(input, dims, lo, hi) returns a map whose
\* keys are exactly the dimension ids, each value an integer in [lo, hi], 0
\* for absent and non-finite inputs, other keys dropped; the legacy
\* encode/decode yields values in [-10, 10].
C8_NormalizedOverDimensions ==
    /\ (call # None /\ call[1].fn \in { "normalize", "normalizeNull" } /\ returned # None) =>
           /\ returned[1] # Threw
           /\ KeysAre(returned[1].value, call[1].dimensions)
           /\ WithinRange(returned[1].value, call[1].min, call[1].max)
    /\ NormalizeDone =>
           \A i \in DOMAIN returned[1].value :
               LET entry == EntryFor(call[1].input, returned[1].value[i].id) IN
               (entry = None \/ ~entry[1].num.fin) => returned[1].value[i].value = 0
    /\ (call # None /\ call[1].fn = "normalizeNull" /\ returned # None) =>
           \A i \in DOMAIN returned[1].value : returned[1].value[i].value = 0
    /\ (call # None /\ call[1].fn \in { "legacyRoundTrip", "decodeLegacy" } /\ GaveMap) =>
           /\ KeysAre(returned[1].value[1], call[1].dimensions)
           /\ WithinRange(returned[1].value[1], -10, 10)

\* calm 55 is cut to the upper bound, courage "abc" becomes 0, zeal is dropped
C8_Witness ==
    /\ NormalizeDone
    /\ call[1].dimensions = << "calm", "courage" >>
    /\ EntryFor(call[1].input, "calm") # None
    /\ EntryFor(call[1].input, "calm")[1].jv = JNum(55)
    /\ EntryFor(call[1].input, "courage") # None
    /\ EntryFor(call[1].input, "courage")[1].jv = JStr(T_abc)
    /\ EntryFor(call[1].input, "zeal") # None
    /\ returned[1].value = << [ id |-> "calm", value |-> call[1].max ],
                              [ id |-> "courage", value |-> 0 ] >>

\* a legacy round trip that cut 11 down to 10
C8_WitnessLegacy ==
    /\ call # None /\ call[1].fn = "legacyRoundTrip" /\ GaveMap
    /\ ScoreOf(call[1].map, "calm") = 11
    /\ call[1].dimensions = << "calm", "courage" >>
    /\ ScoreOf(returned[1].value[1], "calm") = 10

DecodeDone == call # None /\ call[1].fn = "decodeShareState" /\ returned # None

\* C9: decodeShareState returns null, without raising, for an input that is
\* absent or empty, is no base64url, is no JSON, has a v other than 1 or has
\* no string resultId; what it returns otherwise has v = 1 and a string
\* resultId.
C9_RejectsOrReturnsVersionOne ==
    DecodeDone =>
        /\ returned[1] # Threw
        /\ call[1].kind # "valid" => returned[1].value = None
        /\ returned[1].value # None =>
               /\ call[1].kind = "valid"
               /\ returned[1].value[1].t = "obj"
               /\ Member(returned[1].value[1], T_v) = Some(JNum(1))
               /\ Member(returned[1].value[1], T_resultId) # None
               /\ Member(returned[1].value[1], T_resultId)[1].t = "str"
        /\ call[1].kind = "valid" => returned[1].value # None

\* a well-formed payload of version 2 was rejected
C9_Witness ==
    /\ DecodeDone
    /\ call[1].kind = "wrongVersion"
    /\ call[1].raw # None
    /\ fromBase64Url(call[1].raw[1]) # None
    /\ JSONparse(fromBase64Url(call[1].raw[1])[1]) # None
    /\ JSONparse(fromBase64Url(call[1].raw[1])[1])[1].t = "obj"
    /\ Member(JSONparse(fromBase64Url(call[1].raw[1])[1])[1], T_v) = Some(JNum(2))
    /\ returned[1] = Gave(None)

\* not-base64!! was rejected
C9_WitnessNotBase64 ==
    /\ DecodeDone
    /\ call[1].kind = "notBase64"
    /\ returned[1] = Gave(None)

\* a payload was returned
C9_WitnessValid ==
    /\ DecodeDone
    /\ returned[1].value # None

(***************************************************************************)
(* Further properties of the session (checked under Spec)                  *)
(***************************************************************************)
Known(d, text) == \E i \in DOMAIN d.results : TextOf[d.results[i].id] = text

\* the state parameter decodes and names a result of the configuration
VersionedUsable(d, u) ==
    /\ decodeShareState(u.state) # None
    /\ Known(d, Member(decodeShareState(u.state)[1], T_resultId)[1].s)

\* the result parameter names a result of the configuration
LegacyUsable(d, u) == u.result # None /\ Known(d, u.result[1])

AllZero(map, dimensions) ==
    /\ [ i \in DOMAIN map |-> map[i].id ] = dimensions
    /\ \A i \in DOMAIN map : map[i].value = 0

\* the session after the load is the one the state parameter describes
LoadedVersioned(d, u) ==
    /\ finished' /\ lastResult' # None
    /\ TextOf[lastResult'[1].id] = Member(decodeShareState(u.state)[1], T_resultId)[1].s
    /\ scores' = normalizeScoresForDimensions(
                     Lookup(decodeShareState(u.state), T_scores), d.dimensions, -20, 20)
    /\ answers' = RestoredAnswers(Lookup(decodeShareState(u.state), T_answers))

\* the session after the load is the one the legacy pair describes
LoadedLegacy(d, u) ==
    /\ finished' /\ lastResult' # None
    /\ TextOf[lastResult'[1].id] = u.result[1]
    /\ IF decodeLegacyScoresFromUrl(u.scores, d.dimensions) # None
       THEN scores' = decodeLegacyScoresFromUrl(u.scores, d.dimensions)[1]
       ELSE AllZero(scores', d.dimensions)
    /\ answers' = << >>

LoadedFresh(d) ==
    /\ AllZero(scores', d.dimensions)
    /\ answers' = << >> /\ index' = 0 /\ ~finished' /\ lastResult' = None

\* C10: on load the state parameter is used when it decodes validly and
\* names a known result; otherwise the legacy result id with the legacy
\* scores; otherwise the session starts fresh: all-zero vector, no answers,
\* index 0, not finished.
C10_VersionedThenLegacyThenFresh ==
    [][ (data = None /\ data' # None) =>
            IF VersionedUsable(data'[1], url) THEN LoadedVersioned(data'[1], url)
            ELSE IF LegacyUsable(data'[1], url) THEN LoadedLegacy(data'[1], url)
            ELSE LoadedFresh(data'[1]) ]_vars

\* loaded with a usable state parameter and a usable legacy pair that name
\* different results: the session is the one of the state parameter
C10_Witness ==
    /\ data # None /\ url = UrlBothValid
    /\ VersionedUsable(data[1], url) /\ LegacyUsable(data[1], url)
    /\ finished /\ ~answeringLocked
    /\ lastResult[1].id = "potion_top_courage"
    /\ scores = << [ id |-> "calm", value |-> -20 ], [ id |-> "courage", value |-> 18 ] >>
    /\ answers = << 1, 0 >>

\* loaded with a state parameter naming an unknown result: the legacy pair
C10_WitnessLegacy ==
    /\ data # None /\ url = UrlUnknownInState
    /\ finished /\ ~answeringLocked
    /\ lastResult[1].id = "potion_top_calm"
    /\ scores = << [ id |-> "calm", value |-> -7 ], [ id |-> "courage", value |-> 0 ] >>
    /\ answers = << >>

\* loaded with a result parameter naming an unknown result: a fresh session
C10_WitnessFresh ==
    /\ data # None /\ url = UrlUnknownResult
    /\ ~finished /\ ~answeringLocked /\ lastResult = None
    /\ answers = << >> /\ index = 0

\* URLs whose state value is corrupt base64, invalid JSON, of a wrong version
\* or names a result no configuration has
MalformedStateUrls == { UrlCorruptState, UrlBrokenJson, UrlVersionTwo, UrlUnknownInState }

\* URLs whose scores value fails to parse
MalformedScoresUrls == { UrlMalformedScores }

LoadStep == data = None /\ data' # None

C11_WitnessFresh ==
    /\ data # None /\ url = UrlBrokenJson
    /\ ~finished /\ lastResult = None /\ answers = << >>
    /\ AllZero(scores, data[1].dimensions)

\* the step in which the last answer finalizes the quiz
FinalizeStep == data # None /\ data' = data /\ ~finished /\ finished'

\* the three parameters carry result id, scores and answers of the session
UrlCarries(u, d, resultId, map, answerList) ==
    /\ u.state # None /\ u.result # None /\ u.scores # None
    /\ u.result = Some(TextOf[resultId])
    /\ decodeShareState(u.state) # None
    /\ Member(decodeShareState(u.state)[1], T_resultId) = Some(JStr(TextOf[resultId]))
    /\ Lookup(decodeShareState(u.state), T_scores)
           = Some(ScoreMapJV(OverDimensions(map, d.dimensions)))
    /\ Lookup(decodeShareState(u.state), T_answers) = Some(AnswersJV(answerList))
    /\ decodeLegacyScoresFromUrl(u.scores, d.dimensions) # None
    /\ \A i \in DOMAIN d.dimensions :
           ScoreOf(decodeLegacyScoresFromUrl(u.scores, d.dimensions)[1], d.dimensions[i])
               = Max2(-10, Min2(10, ScoreOf(map, d.dimensions[i])))

\* C12: after the answer that produces a result the parameters state,
\* result and scores are all set together from the current result id,
\* scores and answers; after a reset none of the three remains.
C12_UrlFollowsSession ==
    [][ /\ FinalizeStep =>
               UrlCarries(url', data[1], lastResult'[1].id, scores', answers')
        /\ HandleReset => url' = NoUrl ]_vars

(***************************************************************************)
(* SpecCondition: meetsCondition called on conditions of every kind and    *)
(* on score vectors with ties, negative values and missing dimensions.     *)
(***************************************************************************)
ConditionDimensions == << "calm", "courage", "focus" >>
ConditionValues == { -4, 0, 12 }

\* the vectors of the documented scenarios
ScenarioMaps ==
    { << [ id |-> "calm", value |-> 5 ], [ id |-> "courage", value |-> -3 ],
         [ id |-> "focus", value |-> 2 ] >>,
      << [ id |-> "calm", value |-> 4 ], [ id |-> "focus", value |-> 1 ],
         [ id |-> "tempo", value |-> 9 ] >> }

\* vectors built from the dimension list (insertion order is definition
\* order), the empty vector and vectors that lack a dimension
ConditionMaps ==
    { [ i \in DOMAIN ConditionDimensions |-> [ id |-> ConditionDimensions[i], value |-> v[i] ] ] :
        v \in [ DOMAIN ConditionDimensions -> ConditionValues ] }
    \cup ScoreMaps
    \cup ScenarioMaps

Typed(type, dimOpt, valueOpt) == [ Cond(type) EXCEPT !.dim = dimOpt, !.value = valueOpt ]

\* a condition that is null or undefined
NullConditions == { [ kind |-> "null", cond |-> None ] }

\* conditions whose type is none of the recognized ones
UnknownTypeConditions ==
    { [ kind |-> "unknownType", cond |-> Some(c) ] :
        c \in { Cond("min_ge"), Typed("min_ge", Some("calm"), Some(99)),
                Typed("TOP_IS", Some("courage"), None),
                [ NoCond EXCEPT !.value = Some(99) ],
                [ Cond("between") EXCEPT !.a = Some("calm"), !.min = Some(50) ] } }

\* conditions of a recognized type that lack a required field
MalformedConditions ==
    { [ kind |-> "malformed", cond |-> Some(c) ] :
        c \in { Cond("diff_greater"),
                [ Cond("diff_greater") EXCEPT !.a = Some("calm") ],
                [ Cond("diff_abs_lte") EXCEPT !.a = Some("calm"), !.value = Some(99) ],
                [ Cond("diff_abs_lte") EXCEPT !.b = Some("courage"), !.value = Some(99) ],
                Cond("top_is"), Cond("not_top_is"),
                [ Cond("rank_is") EXCEPT !.rank = Some(2) ] } }

\* well-formed conditions of the ranking types
RankConditions ==
    { [ kind |-> "rank", cond |-> Some(Typed(t, Some(d), None)) ] :
        t \in { "top_is", "not_top_is" }, d \in { "calm", "courage", "focus", "zeal" } }
    \cup { [ kind |-> "rank", cond |-> Some([ Typed("rank_is", Some(d), None) EXCEPT !.rank = r ]) ] :
             d \in { "calm", "courage", "focus" },
             r \in { None, Some(0), Some(1), Some(2), Some(3), Some(4) } }

\* other well-formed typed conditions
TypedConditions ==
    { [ kind |-> "typed", cond |-> Some(c) ] :
        c \in { Typed("min", Some("calm"), Some(4)), Typed("min", None, None),
                Typed("max_le", Some("courage"), Some(0)),
                Typed("max_ge", Some("zeal"), Some(0)),
                [ Cond("diff_greater") EXCEPT !.a = Some("calm"), !.b = Some("courage"),
                                              !.value = Some(2) ],
                [ Cond("diff_abs_lte") EXCEPT !.a = Some("calm"), !.b = Some("zeal"),
                                              !.value = Some(4) ],
                Typed("top_diff_gte", None, Some(12)), Typed("top_diff_lte", None, Some(4)),
                Typed("total_min", None, Some(8)), Typed("total_max", None, Some(-1)),
                [ Typed("sum_min", None, Some(6)) EXCEPT !.dims = Some(<< "calm", "focus" >>) ],
                [ Typed("sum_max", None, Some(0)) EXCEPT !.dims = Some(<< "courage", "zeal" >>) ],
                Typed("sum_min", None, Some(1)),
                [ Typed("sum_min", None, None) EXCEPT !.dims = Some(<< "zeal", "focus" >>) ],
                [ Typed("sum_max", None, Some(5)) EXCEPT !.dims = Some(<< "calm", "focus" >>) ],
                Typed("sum_max", None, Some(-1)), Typed("sum_max", None, None),
                [ Cond("spread_between") EXCEPT !.min = Some(0), !.max = Some(6) ],
                [ Cond("spread_between") EXCEPT !.min = Some(13) ],
                [ Cond("spread_between") EXCEPT !.max = Some(12) ],
                [ Cond("spread_between") EXCEPT !.min = Some(8), !.max = Some(8) ],
                Cond("spread_between") } }

\* conditions with a dim and no type: the legacy dialect
LegacyConditions ==
    { [ kind |-> "legacy",
        cond |-> Some([ NoCond EXCEPT !.dim = Some(d), !.min = lo, !.max = hi,
                                      !.op = op, !.value = v ]) ] :
        d \in { "calm", "zeal" },
        lo \in { None, Some(0) }, hi \in { None, Some(4) },
        op \in { None, Some("gt"), Some("lt"), Some("lte"), Some("eq"), Some("gte"), Some("ne") },
        v \in { None, Some(-4), Some(12) } }

ConditionPool ==
    NullConditions \cup UnknownTypeConditions \cup MalformedConditions
    \cup RankConditions \cup TypedConditions \cup LegacyConditions

InitCondition ==
    /\ results = << >> /\ scoreMap = << >> /\ outcome = None
    /\ call \in { Some([ fn |-> "meetsCondition", kind |-> c.kind, cond |-> c.cond, map |-> m ]) :
                    c \in ConditionPool, m \in ConditionMaps }
    /\ returned = None
    /\ SessionIdle

MeetsCondition ==
    /\ Calling("meetsCondition")
    /\ returned' = Some(Gave(meetsCondition(call[1].cond, call[1].map)))
    /\ UNCHANGED << call, resolverVars, sessionVars >>

NextCondition == MeetsCondition

SpecCondition == InitCondition /\ [][NextCondition]_vars

(***************************************************************************)
(* Properties of the condition evaluator (checked under SpecCondition)     *)
(***************************************************************************)
Evaluated == call # None /\ call[1].fn = "meetsCondition" /\ returned # None

\* C13: for every score vector a null or absent condition evaluates to true
\* and so does a condition whose type is not a recognized one.
C13_NullAndUnknownTypeHold ==
    (Evaluated /\ call[1].kind \in { "null", "unknownType" }) => returned[1] = Gave(TRUE)

\* a condition of the unknown type min_ge asking for calm 99 held on a
\* vector with calm -4
C13_Witness ==
    /\ Evaluated
    /\ call[1].cond = Some(Typed("min_ge", Some("calm"), Some(99)))
    /\ ScoreOf(call[1].map, "calm") = -4
    /\ returned[1] = Gave(TRUE)

\* a null condition held
C13_WitnessNull == Evaluated /\ call[1].cond = None /\ returned[1] = Gave(TRUE)

\* C14: every malformed condition, also one of a recognized type that lacks
\* its required fields (diff_greater or diff_abs_lte without a or b, top_is
\* without dim), is treated as satisfied.
C14_MalformedHolds ==
    (Evaluated /\ call[1].kind \in { "unknownType", "malformed" }) => returned[1] = Gave(TRUE)

\* the position of a dimension in the ranking: one more than the number of
\* entries with a greater value or with the same value and an earlier place
\* in the vector; 0 when the vector has no such dimension
RankOf(map, dim) ==
    IF \E i \in DOMAIN map : map[i].id = dim
    THEN LET p == CHOOSE i \in DOMAIN map : map[i].id = dim IN
         1 + Cardinality({ i \in DOMAIN map :
                             \/ map[i].value > map[p].value
                             \/ (map[i].value = map[p].value /\ i < p) })
    ELSE 0

\* the rank a rank_is condition asks for: 1-based, 1 when absent or below 1
AskedRank(cond) == IF cond.rank = None \/ cond.rank[1] < 1 THEN 1 ELSE cond.rank[1]

\* C15: top_is, not_top_is and rank_is rank the dimensions by value
\* descending with ties broken by insertion order: top_is dim holds iff dim
\* is at position 1, not_top_is iff it is not, rank_is with rank r iff dim
\* is at position r.
C15_RankByValueThenInsertion ==
    (Evaluated /\ call[1].kind = "rank") =>
        LET cond == call[1].cond[1]
            position == RankOf(call[1].map, cond.dim[1])
        IN CASE cond.type[1] = "top_is" -> returned[1] = Gave(position = 1)
             [] cond.type[1] = "not_top_is" -> returned[1] = Gave(position # 1)
             [] cond.type[1] = "rank_is" -> returned[1] = Gave(position = AskedRank(cond))

\* calm and courage share the maximum 12 and calm, defined first, is top
C15_Witness ==
    /\ Evaluated
    /\ call[1].cond = Some(Typed("top_is", Some("calm"), None))
    /\ call[1].map = << [ id |-> "calm", value |-> 12 ], [ id |-> "courage", value |-> 12 ],
                        [ id |-> "focus", value |-> -4 ] >>
    /\ returned[1] = Gave(TRUE)

\* courage, tied with calm at 12, is at rank 2 and focus at rank 3
C15_WitnessRank ==
    /\ Evaluated
    /\ call[1].cond = Some([ Typed("rank_is", Some("courage"), None) EXCEPT !.rank = Some(2) ])
    /\ call[1].map = << [ id |-> "calm", value |-> 12 ], [ id |-> "courage", value |-> 12 ],
                        [ id |-> "focus", value |-> -4 ] >>
    /\ returned[1] = Gave(TRUE)

\* C16: once a result is finalized (finished, by completing the quiz or by
\* restoring from a URL) the score vector, the answers and the shown result
\* do not change under any answer or timer event.
C16_FrozenOnceFinished ==
    [][ (finished /\ ((\E k \in 1..2 : HandleAnswer(k)) \/ TransitionTimer)) =>
            UNCHANGED << scores, answers, lastResult, finished >> ]_vars

\* a session restored from a URL shows a question whose options can be
\* clicked
C16_Witness ==
    /\ data # None /\ finished /\ ~answeringLocked
    /\ CurrentQuestion(data, index) # None
    /\ lastResult # None /\ answers # << >>

\* a session finalized by its last answer
C16_WitnessFinalized ==
    /\ Finalized /\ CurrentQuestion(data, index) # None /\ Len(answers) = 2

(***************************************************************************)
(* legacy/assets/js/app.js: the vanilla page.  Its `state` object is a     *)
(* record; rendered is the question whose option buttons are in the        *)
(* document (the question and option a click handler closed over).         *)
(***************************************************************************)
initScores(dimensions) ==
    [ i \in DOMAIN dimensions |-> [id |-> dimensions[i], value |-> 0] ]

\* without a question at state.index renderQuestion returns before it
\* unlocks or replaces the buttons
renderQuestion(st, d) ==
    IF st.index + 1 \in DOMAIN d.questions
    THEN [ st EXCEPT !.answeringLocked = FALSE, !.rendered = Some(st.index) ]
    ELSE st

\* init() on a page opened without a result parameter
legacyInit(d) ==
    renderQuestion([ index |-> 0, scores |-> initScores(d.dimensions), answers |-> << >>,
                     finished |-> FALSE, answeringLocked |-> FALSE, rendered |-> None ], d)

\* state.scores[dimId] = clamp((state.scores[dimId] || 0) + delta, -20, 20)
\* for each weight from entry i on; delta is a number
RECURSIVE addWeights(_, _, _)
addWeights(scoreObject, weights, i) ==
    IF i > Len(weights) THEN scoreObject
    ELSE addWeights(
             Put(scoreObject, weights[i].id,
                 clamp(ScoreOf(scoreObject, weights[i].id) + weights[i].delta[1], -20, 20)),
             weights, i + 1)

\* applyAnswer starts a timeout instead of finishing
startsTimeout(st, d) == st.index < Len(d.questions) - 1

applyAnswer(st, d, option, optionIndex) ==
    [ st EXCEPT !.scores = addWeights(st.scores, option.weights, 1),
                !.answers = SetAnswer(st.answers, st.index, optionIndex),
                !.finished = IF startsTimeout(st, d) THEN @ ELSE TRUE ]

\* a click on option k (1-based) reaches applyAnswer
clickIsTaken(st, d, k) ==
    /\ st.rendered # None
    /\ k \in DOMAIN d.questions[st.rendered[1] + 1].options
    /\ ~st.answeringLocked

\* the click listener renderQuestion attached to option k
click(st, d, k) ==
    IF clickIsTaken(st, d, k)
    THEN applyAnswer([ st EXCEPT !.answeringLocked = TRUE ], d,
                     d.questions[st.rendered[1] + 1].options[k], k - 1)
    ELSE st

\* the callback of the setTimeout of applyAnswer
timeoutCallback(st, d) ==
    [ renderQuestion([ st EXCEPT !.index = @ + 1 ], d) EXCEPT !.answeringLocked = FALSE ]

\* reset() leaves the timeouts already started alone
reset(st, d) ==
    renderQuestion([ st EXCEPT !.index = 0, !.finished = FALSE, !.answeringLocked = FALSE,
                               !.answers = << >>, !.scores = initScores(d.dimensions) ], d)

(***************************************************************************)
(* SpecParity: the two pages side by side on the same configuration, each  *)
(* given the same clicks and the same passage of time.  Every timeout has  *)
(* the same delay, so the timeouts come due in the order they were         *)
(* started; an entry of timers names the pages that still wait for it.     *)
(***************************************************************************)
MaxTimers == 2       \* most timeouts pending at once

\* window.clearTimeout(transitionTimeoutRef.current) seen from the queue
RECURSIVE Cleared(_)
Cleared(queue) ==
    IF queue = << >> THEN << >>
    ELSE IF Head(queue) = "react" THEN Cleared(Tail(queue))
    ELSE << "legacy" >> \o Cleared(Tail(queue))

Started(queue, byReact, byLegacy) ==
    IF byReact /\ byLegacy THEN Append(Cleared(queue), "both")
    ELSE IF byReact THEN Append(Cleared(queue), "react")
    ELSE IF byLegacy THEN Append(queue, "legacy")
    ELSE queue

\* questions whose weights are all numbers
NumericQuestions ==
    { q \in QuestionPool :
        \A o \in DOMAIN q.options :
            \A w \in DOMAIN q.options[o].weights : q.options[o].weights[w].delta # None }

ParityConfigs ==
    [ dimensions : { SessionDimensions },
      questions : SeqsUpTo(NumericQuestions, MaxQuestions),
      results : { r \in SessionResults : Len(r) = 3 } ]

InitParity ==
    /\ results = << >> /\ scoreMap = << >> /\ outcome = None
    /\ CodecIdle
    /\ files \in { Some(c) : c \in ParityConfigs }
    /\ url = NoUrl
    /\ data = None /\ index = 0 /\ scores = << >> /\ answers = << >>
    /\ finished = FALSE /\ lastResult = None
    /\ answeringLocked = FALSE /\ transitionTimeout = FALSE
    /\ legacy = None /\ timers = << >>

\* both pages have fetched the configuration
ParityLoad ==
    /\ InitEffect
    /\ legacy' = Some(legacyInit(files[1]))
    /\ UNCHANGED timers

\* the user clicks option k on both pages
ParityAnswer(k) ==
    /\ legacy # None
    /\ Len(timers) < MaxTimers
    /\ HandleAnswer(k)
    /\ legacy' = Some(click(legacy[1], data[1], k))
    /\ timers' = Started(timers,
                         ~(answeringLocked \/ finished) /\ index < Len(data[1].questions) - 1,
                         clickIsTaken(legacy[1], data[1], k) /\ startsTimeout(legacy[1], data[1]))

\* the oldest timeout comes due on the pages that wait for it
ParityTimer ==
    /\ timers # << >>
    /\ timers' = Tail(timers)
    /\ IF Head(timers) = "legacy"
       THEN UNCHANGED << resolverVars, codecVars, reactVars >>
       ELSE TransitionTimer
    /\ IF Head(timers) = "react"
       THEN UNCHANGED legacy
       ELSE legacy' = Some(timeoutCallback(legacy[1], data[1]))

\* the user clicks Restart on both pages
ParityReset ==
    /\ legacy # None
    /\ HandleReset
    /\ legacy' = Some(reset(legacy[1], data[1]))
    /\ timers' = Cleared(timers)

NextParity ==
    \/ ParityLoad
    \/ \E k \in 1..2 : ParityAnswer(k)
    \/ ParityTimer
    \/ ParityReset

SpecParity == InitParity /\ [][NextParity]_vars

\* C17: for every sequence of answer, transition-timer and reset events
\* (a reset during a pending 350 ms transition included) the legacy page
\* and the React page are at the same question index, with the same
\* recorded answers, the same score vector and the same finished flag.
C17_SameSessionState ==
    legacy # None =>
        /\ legacy[1].index = index
        /\ legacy[1].answers = answers
        /\ legacy[1].scores = scores
        /\ legacy[1].finished = finished

\* as long as no Restart was clicked during a transition the pages agree
C17_NoStaleTimeout == \A i \in DOMAIN timers : timers[i] = "both"

C17_AgreeWithoutStaleTimeout == [](C17_NoStaleTimeout) => [](C17_SameSessionState)

\* the entry of dim in the vector, 0 when the vector has none
VectorAt(map, dim) ==
    IF \E i \in DOMAIN map : map[i].id = dim
    THEN (CHOOSE e \in Range(map) : e.id = dim).value
    ELSE 0

\* min <= v <= max with an absent bound unbounded
WithinBounds(v, lo, hi) == (lo = None \/ lo[1] <= v) /\ (hi = None \/ v <= hi[1])

\* v compared with t by op; an absent op, and one outside the five, is gte
Compared(v, op, t) ==
    IF op = Some("gt") THEN v > t
    ELSE IF op = Some("lt") THEN v < t
    ELSE IF op = Some("lte") THEN v <= t
    ELSE IF op = Some("eq") THEN v = t
    ELSE v >= t

\* C18: a condition with a dim and no type is evaluated in the legacy
\* dialect: with a min or a max it holds iff min <= vector[dim] <= max, an
\* absent bound being unbounded; otherwise vector[dim] is compared with
\* value (0 when absent) by op in gt, lt, lte, eq, gte (gte when absent);
\* a dimension the vector lacks reads as 0.
C18_LegacyDialect ==
    (Evaluated /\ call[1].kind = "legacy") =>
        returned[1] = Gave(
            IF call[1].cond[1].min # None \/ call[1].cond[1].max # None
            THEN WithinBounds(VectorAt(call[1].map, call[1].cond[1].dim[1]),
                              call[1].cond[1].min, call[1].cond[1].max)
            ELSE Compared(VectorAt(call[1].map, call[1].cond[1].dim[1]), call[1].cond[1].op,
                          IF call[1].cond[1].value = None THEN 0
                          ELSE call[1].cond[1].value[1]))

\* a range with only a max, on calm at -4: the absent min does not bound it
C18_Witness ==
    /\ Evaluated /\ call[1].kind = "legacy"
    /\ call[1].cond[1].dim = Some("calm")
    /\ call[1].cond[1].min = None /\ call[1].cond[1].max = Some(4)
    /\ VectorAt(call[1].map, "calm") = -4
    /\ returned[1] = Gave(TRUE)

\* { dim: "zeal", op: "lt", value: 12 } on a vector without zeal: 0 < 12
C18_WitnessMissingDimension ==
    /\ Evaluated /\ call[1].kind = "legacy"
    /\ call[1].cond[1].dim = Some("zeal")
    /\ call[1].cond[1].min = None /\ call[1].cond[1].max = None
    /\ call[1].cond[1].op = Some("lt") /\ call[1].cond[1].value = Some(12)
    /\ returned[1] = Gave(TRUE)

\* { dim: "calm" } alone is calm >= 0, false at -4
C18_WitnessDefaults ==
    /\ Evaluated /\ call[1].kind = "legacy"
    /\ call[1].cond[1].dim = Some("calm")
    /\ call[1].cond[1].min = None /\ call[1].cond[1].max = None
    /\ call[1].cond[1].op = None /\ call[1].cond[1].value = None
    /\ VectorAt(call[1].map, "calm") = -4
    /\ returned[1] = Gave(FALSE)

(***************************************************************************)
(* SpecFallback: computeResult on results that all carry conditions, most  *)
(* of them never met, and on vectors with a dimension outside the fixed    *)
(* mapping, with entries of equal absolute value, and on the empty vector. *)
(***************************************************************************)
FallbackPool ==
    { Profile("potion_calm", Some(1),
              << Some([ Cond("min") EXCEPT !.dim = Some("courage"), !.value = Some(20) ]) >>),
      Profile("potion_top_calm", None, << Some(Cond("diff_greater")) >>),
      Profile("potion_top_courage", Some(5),
              << Some([ Cond("min") EXCEPT !.dim = Some("calm"), !.value = Some(12) ]) >>),
      [ Profile("potion_mist", Some(2),
                << Some([ Cond("min") EXCEPT !.dim = Some("courage"), !.value = Some(20) ]) >>)
          EXCEPT !.summary = None ],
      Profile("potion_top_zeal", None, << Some(Cond("diff_greater")) >>) }

FallbackLists == { q \in InjectiveSeqs(FallbackPool, MaxResults) : HasDistinctIds(q) }

\* vectors of at most two entries over a mapped and an unmapped dimension
FallbackMaps ==
    { q \in InjectiveSeqs([ id : { "calm", "courage", "zeal" }, value : { -12, 4, 12 } ], 2) :
        HasDistinctIds(q) }

InitFallback ==
    /\ results \in FallbackLists
    /\ scoreMap \in FallbackMaps
    /\ outcome = None
    /\ CodecIdle
    /\ SessionIdle

SpecFallback == InitFallback /\ [][NextResolve]_vars

\* the position of the entry of greatest absolute value, the earliest of
\* equal ones, among the positions in S
Greatest(S) ==
    CHOOSE i \in S :
        \A j \in S : \/ Abs(scoreMap[i].value) > Abs(scoreMap[j].value)
                     \/ Abs(scoreMap[i].value) = Abs(scoreMap[j].value) /\ i <= j

DominantId == scoreMap[Greatest(DOMAIN scoreMap)].id

SecondaryId == scoreMap[Greatest(DOMAIN scoreMap \ { Greatest(DOMAIN scoreMap) })].id

MappedDimensions ==
    { "calm", "courage", "focus", "charm", "tempo", "insight", "resolve", "wonder" }

\* the first result with this id
FirstWithId(id) ==
    results[CHOOSE i \in DOMAIN results :
                results[i].id = id /\ \A j \in 1..(i - 1) : results[j].id # id]

HasId(id) == \E i \in DOMAIN results : results[i].id = id

FallbackChoice ==
    IF DominantId \in MappedDimensions /\ HasId("potion_top_" \o DominantId)
    THEN FirstWithId("potion_top_" \o DominantId)
    ELSE IF HasId("potion_calm") THEN FirstWithId("potion_calm")
    ELSE results[1]

\* C19: when no result is eligible and the vector is non-empty, the
\* dominant dimension is the entry of greatest absolute value (the earlier
\* entry on a tie); computeResult returns the result named by the fixed
\* mapping of that dimension if results has it, otherwise potion_calm if
\* present, otherwise the first entry of results; extra is
\* "Dominant: <top>", followed by ", Secondary: <second>" when the vector
\* has a second entry.
C19_DominantFallback ==
    (outcome # None /\ EligibleSet = {} /\ scoreMap # << >>) =>
        /\ outcome[1] # None
        /\ results # << >> =>
              /\ Returned.id = FallbackChoice.id
              /\ Returned.title = FallbackChoice.title
              /\ Returned.priority = FallbackChoice.priority
              /\ Returned.conditions = FallbackChoice.conditions
        /\ Returned.extra =
              Some(IF Len(scoreMap) >= 2
                   THEN "Dominant: " \o DominantId \o ", Secondary: " \o SecondaryId
                   ELSE "Dominant: " \o DominantId)

\* calm at -12 before courage at 12: calm is dominant and its mapped result,
\* which is not the first entry, is returned
C19_Witness ==
    /\ outcome # None /\ EligibleSet = {}
    /\ scoreMap = << [ id |-> "calm", value |-> -12 ], [ id |-> "courage", value |-> 12 ] >>
    /\ Len(results) >= 2 /\ results[1].id = "potion_mist"
    /\ Returned.id = "potion_top_calm"
    /\ Returned.extra = Some("Dominant: calm, Secondary: courage")

\* zeal has no mapping although potion_top_zeal is in results: potion_calm,
\* which is not the first entry, is returned
C19_WitnessSentinel ==
    /\ outcome # None /\ EligibleSet = {}
    /\ scoreMap = << [ id |-> "calm", value |-> 4 ], [ id |-> "zeal", value |-> -12 ] >>
    /\ HasId("potion_top_zeal") /\ HasId("potion_top_calm")
    /\ results[1].id # "potion_calm"
    /\ Returned.id = "potion_calm"
    /\ Returned.extra = Some("Dominant: zeal, Secondary: calm")

\* neither the mapped result nor potion_calm is in results: the first entry
C19_WitnessFirst ==
    /\ outcome # None /\ EligibleSet = {}
    /\ scoreMap = << [ id |-> "courage", value |-> 4 ] >>
    /\ results # << >> /\ ~HasId("potion_top_courage") /\ ~HasId("potion_calm")
    /\ Returned.id = results[1].id
    /\ Returned.extra = Some("Dominant: courage")

\* the returned record has a summary that is a string, the summary of the
\* result it was made from or "" when that result has none, and an extra
SummaryAndExtra ==
    /\ outcome[1] # None
    /\ Returned.summary # None
    /\ Returned.extra # None
    /\ \A i \in DOMAIN results :
          results[i].id = Returned.id =>
              Returned.summary = IF results[i].summary = None THEN Some("")
                                 ELSE results[i].summary

\* C20: on every path of computeResult (conditional winner, dominant
\* dimension fallback, empty-vector default) the returned outcome carries a
\* summary that is a string (the winning result's summary, or the empty
\* string when it has none) and an extra annotation.
C20_SummaryAndExtraOnEveryPath == outcome # None => SummaryAndExtra

\* the conditional path and the dominant-dimension path do
C20_SummaryAndExtraOnNonEmptyVector == (outcome # None /\ scoreMap # << >>) => SummaryAndExtra

\* the dominant-dimension path has returned a result without a summary
C20_FallbackWithoutSummary ==
    /\ outcome # None /\ scoreMap # << >> /\ EligibleSet = {}
    /\ results # << >> /\ Returned.id = "potion_mist"
    /\ Returned.summary = Some("")

(***************************************************************************)
(* Further properties of the session (checked under Spec)                  *)
(***************************************************************************)
\* C21: in every session state after the configuration has loaded the score
\* vector has exactly one entry per known dimension id and no other key,
\* whatever ids the weights of the options name.
C21_OneEntryPerDimension ==
    data # None =>
        /\ Len(scores) = Len(data[1].dimensions)
        /\ Keys(scores) = Range(data[1].dimensions)

\* every known dimension keeps its entry
C21_KnownDimensionsPresent ==
    data # None => \A i \in DOMAIN data[1].dimensions : data[1].dimensions[i] \in Keys(scores)

\* an option whose weights name only known dimensions adds no key
C21_KnownWeightsAddNoKey ==
    [][ \A k \in 1..2 :
          (/\ HandleAnswer(k)
           /\ CurrentQuestion(data, index) # None
           /\ \A w \in DOMAIN CurrentQuestion(data, index)[1].options[k].weights :
                 CurrentQuestion(data, index)[1].options[k].weights[w].id
                     \in Range(data[1].dimensions))
          => Keys(scores') = Keys(scores) ]_vars

\* the ids a weights object can name in the configurations of Spec
WeightIds == { "calm", "courage", "zeal" }

Named(weights, d) == \E w \in DOMAIN weights : weights[w].id = d

\* the delta the weights give d, a non-finite one counted as 0
DeltaOf(weights, d) ==
    IF weights[CHOOSE w \in DOMAIN weights : weights[w].id = d].delta = None THEN 0
    ELSE weights[CHOOSE w \in DOMAIN weights : weights[w].id = d].delta[1]

\* old + delta brought into [-20, 20]
Saturated(v) == IF v > 20 THEN 20 ELSE IF v < -20 THEN -20 ELSE v

\* scores' is scores with the weights applied dimension by dimension
AppliedTo(weights) ==
    \A d \in WeightIds :
        IF Named(weights, d)
        THEN Get(scores', d) = Some(Saturated(ScoreOf(scores, d) + DeltaOf(weights, d)))
        ELSE Get(scores', d) = Get(scores, d)

\* C22: applying an option sets each dimension named in its weights to
\* clamp(old + delta, -20, 20), a non-finite delta counted as 0, and leaves
\* every dimension not named unchanged, also when another dimension
\* saturates.
C22_OptionAppliedPerDimension ==
    [][ \A k \in 1..2 :
          (HandleAnswer(k) /\ ~answeringLocked /\ ~finished) =>
              AppliedTo(CurrentQuestion(data, index)[1].options[k].weights) ]_vars

\* calm has saturated at 20 after two answers of +15 while courage, named in
\* the same weights, stands at -6
C22_Witness ==
    /\ data # None /\ Len(answers) = 2 /\ finished
    /\ Get(scores, "calm") = Some(20) /\ Get(scores, "courage") = Some(-6)

\* the option with a weight that is no number was applied: calm went down
\* by 15 and courage stayed at 12
C22_WitnessNonFinite ==
    /\ data # None /\ answers = << 1, 1 >>
    /\ Get(scores, "calm") = Some(-15) /\ Get(scores, "courage") = Some(12)
    /\ Get(scores, "zeal") = Some(2)

\* the result id the URL stores: that of the state parameter when it is
\* usable, else the result parameter
StoredResultId(d, u) ==
    IF VersionedUsable(d, u) THEN Member(decodeShareState(u.state)[1], T_resultId)[1].s
    ELSE u.result[1]

\* the vector the URL stores, over the dimensions of the configuration
StoredVector(d, u) ==
    IF VersionedUsable(d, u)
    THEN normalizeScoresForDimensions(Lookup(decodeShareState(u.state), T_scores),
                                      d.dimensions, -20, 20)
    ELSE IF decodeLegacyScoresFromUrl(u.scores, d.dimensions) # None
    THEN decodeLegacyScoresFromUrl(u.scores, d.dimensions)[1]
    ELSE [ i \in DOMAIN d.dimensions |-> [ id |-> d.dimensions[i], value |-> 0 ] ]

\* C23: when restoration from the URL succeeds the shown result is the
\* record of the configuration whose id is the stored result id, as it
\* stands in the configuration (the resolver is not run, also when it would
\* select another result for the restored vector), and the vector is
\* restored.
C23_StoredResultShownDirectly ==
    [][ (LoadStep /\ finished') =>
            /\ \E i \in DOMAIN data'[1].results :
                  /\ lastResult' = Some(data'[1].results[i])
                  /\ TextOf[data'[1].results[i].id] = StoredResultId(data'[1], url)
            /\ scores' = StoredVector(data'[1], url) ]_vars

\* restored with potion_calm shown although the resolver gives another
\* result for the restored vector, which is not all zero
C23_Witness ==
    /\ data # None /\ finished /\ ~answeringLocked /\ lastResult # None
    /\ lastResult[1].id = "potion_calm"
    /\ \E i \in DOMAIN scores : scores[i].value # 0
    /\ computeResult(data[1].results, scores)[1].id # "potion_calm"

\* restored from the legacy pair with a resolver that disagrees
C23_WitnessLegacy ==
    /\ data # None /\ finished /\ ~answeringLocked /\ lastResult # None
    /\ ~VersionedUsable(data[1], url)
    /\ computeResult(data[1].results, scores)[1].id # lastResult[1].id

(***************************************************************************)
(* Further properties of meetsCondition (checked under SpecCondition)      *)
(***************************************************************************)
EvaluatedType(type) ==
    /\ Evaluated /\ call[1].kind = "typed"
    /\ call[1].cond[1].type = Some(type)

\* the greatest difference of two entries of the vector, 0 for no entries
Spread(map) ==
    IF map = << >> THEN 0
    ELSE CHOOSE d \in { map[i].value - map[j].value : i, j \in DOMAIN map } :
             \A i, j \in DOMAIN map : map[i].value - map[j].value <= d

\* C24: for every score vector spread_between holds iff maximum - minimum
\* over all entries lies in [min, max] inclusive, min being 0 and max
\* unbounded when absent, and the spread of an empty vector being 0.
C24_SpreadBetween ==
    EvaluatedType("spread_between") =>
        returned[1] = Gave(
            /\ Spread(call[1].map) >= (IF call[1].cond[1].min = None THEN 0
                                       ELSE call[1].cond[1].min[1])
            /\ (call[1].cond[1].max = None \/ Spread(call[1].map) <= call[1].cond[1].max[1]))

\* values 5, -3, 2 with min 0 and max 6: the spread is 8 and the condition
\* is false
C24_Witness ==
    /\ EvaluatedType("spread_between")
    /\ call[1].map = << [ id |-> "calm", value |-> 5 ], [ id |-> "courage", value |-> -3 ],
                        [ id |-> "focus", value |-> 2 ] >>
    /\ call[1].cond[1].min = Some(0) /\ call[1].cond[1].max = Some(6)
    /\ Spread(call[1].map) = 8
    /\ returned[1] = Gave(FALSE)

\* the same vector with min 8 and max 8: both bounds are inclusive
C24_WitnessInclusive ==
    /\ EvaluatedType("spread_between")
    /\ Spread(call[1].map) = 8
    /\ call[1].cond[1].min = Some(8) /\ call[1].cond[1].max = Some(8)
    /\ returned[1] = Gave(TRUE)

\* the empty vector with no bounds: spread 0 within [0, unbounded)
C24_WitnessEmpty ==
    /\ EvaluatedType("spread_between")
    /\ call[1].map = << >>
    /\ call[1].cond[1].min = None /\ call[1].cond[1].max = None
    /\ returned[1] = Gave(TRUE)

\* the sum of the entries of the first n listed ids, a missing one being 0
RECURSIVE ListedSum(_, _, _)
ListedSum(dims, map, n) ==
    IF n = 0 THEN 0
    ELSE ListedSum(dims, map, n - 1) + VectorAt(map, dims[n])

\* the dims list of the condition, empty when absent
Listed(cond) == IF cond.dims = None THEN << >> ELSE cond.dims[1]

ValueOf(cond) == IF cond.value = None THEN 0 ELSE cond.value[1]

\* C25: for every score vector sum_min / sum_max compare the sum over the
\* listed dims only (a listed id the vector lacks counts 0, an absent list
\* sums to 0) with value by >= / <=, whatever the unlisted dimensions hold.
C25_SumOverListedDims ==
    /\ EvaluatedType("sum_min") =>
          returned[1] = Gave(ListedSum(Listed(call[1].cond[1]), call[1].map,
                                       Len(Listed(call[1].cond[1])))
                             >= ValueOf(call[1].cond[1]))
    /\ EvaluatedType("sum_max") =>
          returned[1] = Gave(ListedSum(Listed(call[1].cond[1]), call[1].map,
                                       Len(Listed(call[1].cond[1])))
                             <= ValueOf(call[1].cond[1]))

\* dims [calm, focus], value 6 against { calm: 4, focus: 1, tempo: 9 }: the
\* sum is 5 and sum_min is false
C25_Witness ==
    /\ EvaluatedType("sum_min")
    /\ call[1].map = << [ id |-> "calm", value |-> 4 ], [ id |-> "focus", value |-> 1 ],
                        [ id |-> "tempo", value |-> 9 ] >>
    /\ call[1].cond[1].dims = Some(<< "calm", "focus" >>) /\ call[1].cond[1].value = Some(6)
    /\ returned[1] = Gave(FALSE)

\* sum_max over the same dims with value 5 on the same vector is true
C25_WitnessMax ==
    /\ EvaluatedType("sum_max")
    /\ call[1].map = << [ id |-> "calm", value |-> 4 ], [ id |-> "focus", value |-> 1 ],
                        [ id |-> "tempo", value |-> 9 ] >>
    /\ call[1].cond[1].dims = Some(<< "calm", "focus" >>) /\ call[1].cond[1].value = Some(5)
    /\ returned[1] = Gave(TRUE)

\* an absent list sums to 0: sum_max with value -1 is false on a vector
\* whose entries are all negative
C25_WitnessNoList ==
    /\ EvaluatedType("sum_max")
    /\ call[1].cond[1].dims = None /\ call[1].cond[1].value = Some(-1)
    /\ call[1].map # << >> /\ \A i \in DOMAIN call[1].map : call[1].map[i].value < 0
    /\ returned[1] = Gave(FALSE)

\* the vector after the recorded option of each of the first n questions
\* has been applied once, in order, to the all-zero vector
RECURSIVE Replayed(_, _, _)
Replayed(d, answerList, n) ==
    IF n = 0 THEN createInitialScores(d.dimensions)
    ELSE ApplyWeights(Replayed(d, answerList, n - 1),
                      d.questions[n].options[answerList[n] + 1].weights, 1)

\* a session that shows a result restored from the URL
Restored == data # None /\ finished /\ ~answeringLocked

\* every answered question has contributed the weights of one option
OneOptionPerQuestion ==
    (data # None /\ ~Restored) =>
        /\ Len(answers) <= Len(data[1].questions)
        /\ \A i \in DOMAIN answers : answers[i] + 1 \in DOMAIN data[1].questions[i].options
        /\ scores = Replayed(data[1], answers, Len(answers))

\* C26: while answeringLocked is true (between the acceptance of an answer
\* and the firing of its transition timer), and whenever the session is
\* finished or the configuration is not loaded, an answer event leaves
\* scores, answers and index unchanged; so each question contributes the
\* weights of at most one option.
C26_AnswersIgnoredWhileLocked ==
    /\ [][ ((\E k \in 1..2 : HandleAnswer(k)) /\ (answeringLocked \/ finished \/ data = None))
             => UNCHANGED << scores, answers, index >> ]_vars
    /\ []OneOptionPerQuestion

\* an answer was accepted, its timer is pending and the options of the
\* question are still there to be clicked
C26_Witness ==
    /\ data # None /\ answeringLocked /\ transitionTimeout /\ ~finished
    /\ CurrentQuestion(data, index) # None
    /\ Len(answers) = 1 /\ scores # createInitialScores(data[1].dimensions)

\* the second question was answered after the timer fired
C26_WitnessSecond ==
    /\ data # None /\ answeringLocked /\ finished /\ Len(answers) = 2
    /\ scores = Replayed(data[1], answers, 2)
    /\ scores # Replayed(data[1], answers, 1)

(***************************************************************************)
(* SpecAnswering: the session without Restart and without a second load.   *)
(* The browser runs a timeout that is due, and the user goes on answering  *)
(* while a question can be answered.                                       *)
(***************************************************************************)
NextAnswering ==
    \/ InitEffect /\ UNCHANGED legacyVars
    \/ \E k \in 1..2 : HandleAnswer(k) /\ UNCHANGED legacyVars
    \/ TransitionTimer /\ UNCHANGED legacyVars

\* an answer passes the guard of handleAnswer, seen on the lock it sets;
\* it can whenever the session is loaded, unlocked and unfinished and shows
\* a question
AnswerAccepted ==
    /\ ~answeringLocked /\ ~finished /\ CurrentQuestion(data, index) # None
    /\ answeringLocked' = TRUE

SpecAnswering ==
    /\ Init
    /\ [][NextAnswering]_vars
    /\ WF_vars(TransitionTimer /\ UNCHANGED legacyVars)
    /\ WF_answeringLocked(AnswerAccepted)

\* an answer event that passes the guard of handleAnswer
Accepted == data # None /\ ~answeringLocked /\ ~finished /\ \E k \in 1..2 : HandleAnswer(k)

\* C27: for a quiz of n >= 1 questions and no reset, if answers keep being
\* given and every transition timer fires, the session reaches finished
\* with a result; it does so exactly upon the n-th accepted answer of a
\* fresh session, and the result is the one computed from the vector that
\* includes the weights of that answer.
C27_FinishesOnLastAnswer ==
    /\ (data # None /\ Len(data[1].questions) >= 1) ~> (finished /\ lastResult # None)
    /\ [][ Accepted =>
             /\ Len(answers) = index /\ Len(answers') = index + 1
             /\ finished' <=> Len(answers') = Len(data[1].questions)
             /\ finished' =>
                   /\ scores' = Replayed(data[1], answers', Len(data[1].questions))
                   /\ lastResult' = computeResult(data[1].results, scores') ]_vars

\* a quiz of two questions finished by its second answer; the result is
\* not the one the vector before that answer resolves to
C27_Witness ==
    /\ data # None /\ Len(data[1].questions) = 2 /\ index = 1
    /\ finished /\ answeringLocked /\ Len(answers) = 2
    /\ lastResult = computeResult(data[1].results, scores)
    /\ lastResult # computeResult(data[1].results, Replayed(data[1], answers, 1))

\* a quiz of one question finished by its only answer
C27_WitnessSingle ==
    /\ data # None /\ Len(data[1].questions) = 1 /\ index = 0
    /\ finished /\ answeringLocked /\ Len(answers) = 1 /\ lastResult # None

\* C28: whenever a result is shown (finished, whether by completing the
\* quiz or by restoring from any URL) the result parameter of the URL is
\* present and equals the id of the shown result.
C28_ResultParameterNamesShown ==
    (data # None /\ finished /\ lastResult # None) =>
        url.result = Some(TextOf[lastResult[1].id])

\* the same for the sessions restored from the URL only
C28_RestoredResultParameter == (Restored /\ lastResult # None) => url.result = Some(TextOf[lastResult[1].id])

\* the same for the sessions finished by their last answer with a result
\* whose id is within Latin-1
C28_FinalizedResultParameter ==
    (Finalized /\ lastResult # None /\ lastResult[1].id # "potion_u96EA") =>
        url.result = Some(TextOf[lastResult[1].id])

(***************************************************************************)
(* Further properties of computeResult                                     *)
(***************************************************************************)
SignalLabels == { "High signal", "Moderate signal", "Soft signal" }

\* C29: the signal label is attached as extra only when the score vector
\* has no entries, and then the sum of absolute values is 0: whenever the
\* extra of computeResult is a signal label it is "Soft signal"; "High
\* signal" and "Moderate signal" are never produced.
C29_OnlySoftSignal ==
    (outcome # None /\ outcome[1] # None /\ Returned.extra # None
        /\ Returned.extra[1] \in SignalLabels) =>
        /\ scoreMap = << >>
        /\ Returned.extra = Some("Soft signal")

\* the empty vector with no eligible result: the default result with the
\* soft label
C29_Witness ==
    /\ outcome # None /\ scoreMap = << >> /\ results # << >>
    /\ EligibleSet = {}
    /\ Returned.extra = Some("Soft signal")

\* a vector whose absolute values sum to 24 takes the dominant path
C29_WitnessHighTotal ==
    /\ outcome # None /\ EligibleSet = {}
    /\ Len(scoreMap) = 2 /\ Abs(scoreMap[1].value) + Abs(scoreMap[2].value) = 24
    /\ Returned.extra # None /\ Returned.extra[1] \notin SignalLabels

\* the greatest index a quiz of n questions can show
LastIndex(d) == IF Len(d.questions) >= 1 THEN Len(d.questions) - 1 ELSE 0

\* index and answers of an unfinished session
UnfinishedInStep ==
    (data # None /\ ~finished) =>
        /\ index >= 0 /\ index <= LastIndex(data[1])
        /\ ~answeringLocked => (Len(answers) = index /\ ~transitionTimeout)
        /\ answeringLocked => (transitionTimeout /\ Len(answers) = index + 1)
        /\ \A i \in DOMAIN answers : answers[i] # Hole

\* C30: in every unfinished state 0 <= index <= max(n - 1, 0); the number
\* of recorded answers is index when answering is unlocked and index + 1
\* while a transition is pending, with no hole before index; a reset during
\* a pending transition cancels the pending advance, and the index of an
\* unfinished session only advances by a pending transition.
C30_IndexFollowsAnswers ==
    /\ []UnfinishedInStep
    /\ [][ (HandleReset /\ transitionTimeout) =>
             (index' = 0 /\ ~transitionTimeout' /\ ~answeringLocked' /\ answers' = << >>) ]_vars
    /\ [][ (data # None /\ data' = data /\ ~finished' /\ index' # index) =>
             \/ index' = 0
             \/ transitionTimeout /\ index' = index + 1 /\ Len(answers) = index' ]_vars

\* the timer of the first answer has fired: one answer, index 1, unlocked
C30_Witness ==
    /\ data # None /\ ~finished /\ ~answeringLocked /\ ~transitionTimeout
    /\ index = 1 /\ Len(answers) = 1 /\ Len(data[1].questions) = 2

\* the first answer was accepted and its transition is pending
C30_WitnessPending ==
    /\ data # None /\ ~finished /\ answeringLocked /\ transitionTimeout
    /\ index = 0 /\ Len(answers) = 1 /\ Len(data[1].questions) = 2

====
